---------------------------- MODULE Spec2Model ----------------------------
(***************************************************************************)
(* Delegated credential issuance and verification of atoa_go: the token    *)
(* issuer (IssueOrgToken, IssueAgentToken) and the token verifier          *)
(* (ParseTokenWithPublicKey and the keyless entry points) of src/token.go  *)
(* and src/agent.go, together with the behaviour of the JWT parser they    *)
(* configure (golang-jwt/jwt v5: jwt.NewParser(WithExpirationRequired(),   *)
(* WithIssuedAt()), ParseWithClaims, SignedString).                        *)
(*                                                                         *)
(* A token string is modelled by its three dot-separated segments: the     *)
(* header (its alg), the payload (the JSON claim object) and the signature *)
(* segment.  Strings that travel through JSON are sequences of bytes, so   *)
(* that the encoder's coercion to valid UTF-8 is computed, not assumed.    *)
(* The clock counts ticks of 1/TicksPerSecond seconds; NumericDate values  *)
(* inside tokens are whole seconds, as jwt.NewNumericDate truncates them.  *)
(*                                                                         *)
(* Further specifications over the same variables cover the other parts of *)
(* the repository: CardSpec (AgentCard.Validate and OrgCard.Validate),     *)
(* SigSpec (SignChallenge and VerifySignature of src/org.go), ClientSpec   *)
(* (the AgentClient of src/client.go, src/offer.go and src/message.go) and *)
(* TaskSpec (the task service).  In each of them wire is the value a       *)
(* caller holds, origin is where it came from, and call is the method call *)
(* in progress together with its result.                                   *)
(***************************************************************************)
EXTENDS Integers, Sequences, FiniteSets, TLC

VARIABLES
    now,      \* time.Now(), in ticks
    ticks,    \* how many times the clock has advanced
    wire,     \* the token (or signature) a caller holds and can present
    origin,   \* how the value in hand was produced
    call,     \* the call in progress or just made, and its result
    client,         \* the fields of the AgentClient
    tasks,          \* Service.tasks: task id -> Task
    subscribers,    \* Service.subscribers: task id -> channels, in order
    pushEndpoints   \* Service.pushEndpoints: task id -> endpoint

vars == <<now, ticks, wire, origin, call,
          client, tasks, subscribers, pushEndpoints>>

---------------------------------------------------------------------------
(* Bounds and program constants *)

MaxTicks == 2
TicksPerSecond == 2

TokenIssuer == "atoa.platform"
OrgTokenAudience == "atoa.agent"
AgentTokenAudience == "atoa.session"
DefaultTokenExpiry == 3600

\* The clock advances by one tick or to one tick before a full validity window.
Steps == {1, DefaultTokenExpiry * TicksPerSecond - 1}

---------------------------------------------------------------------------
(* Strings as byte sequences *)

StrX == <<120>>
StrY == <<121>>
StrAgent == <<97>>
StrText == <<116>>
StrForm == <<102>>
StrBad == <<255>>
StrRepl == <<239, 191, 189>>

\* encoding/json writes a Go string as a JSON string coerced to valid UTF-8:
\* every byte that does not start a valid encoding becomes U+FFFD (EF BF BD).
\* ASCII and three-byte encodings are the encodings this model tells apart.
RECURSIVE JSONString(_)
JSONString(s) ==
    IF s = <<>> THEN <<>>
    ELSE IF s[1] < 128 THEN <<s[1]>> \o JSONString(Tail(s))
    ELSE IF /\ s[1] \in 224..239
            /\ Len(s) >= 3
            /\ s[2] \in 128..191
            /\ s[3] \in 128..191
         THEN SubSeq(s, 1, 3) \o JSONString(SubSeq(s, 4, Len(s)))
    ELSE StrRepl \o JSONString(Tail(s))

JSONStrings(ss) == [i \in 1..Len(ss) |-> JSONString(ss[i])]

---------------------------------------------------------------------------
(* Keys, algorithms, time *)

PlatformKey == "platform-key"
OtherKey == "other-key"
Keys == {PlatformKey, OtherKey}
NoKey == "nil"

\* The public half of a key pair is named like the pair.
Public(priv) == priv

ES256 == "ES256"
Algs == {ES256, "HS256", "none"}

\* token.Method.(*jwt.SigningMethodECDSA)
IsECDSA(alg) == alg \in {"ES256", "ES384", "ES512"}

\* jwt.NewNumericDate(t): whole seconds, truncated
NewNumericDate(t) == {t \div TicksPerSecond}

\* t.Before(d) for a NumericDate d that is present
Before(t, secs) == t < secs * TicksPerSecond

---------------------------------------------------------------------------
(* Token strings *)

\* The empty string: no dot, one segment.
EmptyToken == [parts |-> 1]

\* header.payload, the text a signature is computed over
SigningString(alg, payload) == <<alg, payload>>

\* ECDSA over SHA-256 of the text; the base64url signature segment of a
\* 64-byte signature ends in a character with unused trailing bits (pad),
\* which the encoder writes as zero.
ECDSASign(text, priv) == [signer |-> priv, over |-> text, pad |-> 0]

\* jwt.NewWithClaims(method, claims).SignedString(key)
SignedString(alg, payload, priv) ==
    [parts |-> 3, alg |-> alg, payload |-> payload,
     sig |-> ECDSASign(SigningString(alg, payload), priv)]

\* Parser.DecodeSegment without WithStrictDecoding: base64.RawURLEncoding,
\* which ignores the unused trailing bits of the last character.
DecodeSegment(seg) == [signer |-> seg.signer, over |-> seg.over]

\* ecdsa.Verify of the decoded signature against the text and the public key
ECDSAVerify(text, sigBytes, pub) ==
    /\ sigBytes.signer = pub
    /\ sigBytes.over = text

\* token.Method.Verify(text, sig, key)
MethodVerify_NilKeySkips(alg, text, sigBytes, key) ==
    /\ IsECDSA(alg)
    /\ key # NoKey => ECDSAVerify(text, sigBytes, key)

\* token.Method.Verify(text, sig, key): each method accepts its own key type
\* only; the key functions of this repository return an *ecdsa.PublicKey or nil.
MethodVerify(alg, text, sigBytes, key) ==
    /\ IsECDSA(alg)
    /\ key # NoKey
    /\ ECDSAVerify(text, sigBytes, key)

---------------------------------------------------------------------------
(* Claim sets and their JSON encoding *)

\* json.Marshal(OrgTokenClaims)
MarshalOrgClaims(c) ==
    [iss |-> c.iss, aud |-> c.aud, iat |-> c.iat, exp |-> c.exp,
     org_id |-> JSONString(c.org_id), verified |-> c.verified]

\* json.Marshal(AgentTokenClaims)
MarshalAgentClaims(c) ==
    [iss |-> c.iss, aud |-> c.aud, iat |-> c.iat, exp |-> c.exp,
     agent_id |-> JSONString(c.agent_id), org_id |-> JSONString(c.org_id),
     verified |-> c.verified, capabilities |-> JSONStrings(c.capabilities)]

\* json.Unmarshal(payload, &OrgTokenClaims{}): unknown keys are ignored
UnmarshalOrgClaims(p) ==
    [iss |-> p.iss, aud |-> p.aud, iat |-> p.iat, exp |-> p.exp,
     org_id |-> p.org_id, verified |-> p.verified]

\* json.Unmarshal(payload, &AgentTokenClaims{}): absent keys stay zero
UnmarshalAgentClaims(p) ==
    [iss |-> p.iss, aud |-> p.aud, iat |-> p.iat, exp |-> p.exp,
     agent_id |-> IF "agent_id" \in DOMAIN p THEN p.agent_id ELSE <<>>,
     org_id |-> p.org_id, verified |-> p.verified,
     capabilities |-> IF "capabilities" \in DOMAIN p THEN p.capabilities ELSE <<>>]

---------------------------------------------------------------------------
(* The parser: jwt.NewParser(jwt.WithExpirationRequired(), jwt.WithIssuedAt()) *)

NoError == {}

\* Parser.ParseUnverified: three segments with a decodable header and payload
ParseUnverified(token) ==
    IF token.parts # 3 THEN {"ErrTokenMalformed"} ELSE NoError

\* Validator.verifyExpiresAt with requireExp
VerifyExpiresAt_AtExpiryValid(p, t) ==
    IF p.exp = {} THEN {"ErrTokenRequiredClaimMissing"}
    ELSE IF \A e \in p.exp : t <= e * TicksPerSecond THEN NoError
    ELSE {"ErrTokenExpired"}

VerifyExpiresAt(p, t) ==
    IF p.exp = {} THEN {"ErrTokenRequiredClaimMissing"}
    ELSE IF \A e \in p.exp : Before(t, e) THEN NoError
    ELSE {"ErrTokenExpired"}

\* Validator.verifyIssuedAt, enabled by WithIssuedAt, required = false
VerifyIssuedAt(p, t) ==
    IF p.iat = {} THEN NoError
    ELSE IF \A i \in p.iat : ~Before(t, i) THEN NoError
    ELSE {"ErrTokenUsedBeforeIssued"}

\* Validator.Validate: every failing check is reported
ValidateClaims(p, t) ==
    LET errs == VerifyExpiresAt(p, t) \cup VerifyIssuedAt(p, t)
    IN IF errs = NoError THEN NoError ELSE {"ErrTokenInvalidClaims"} \cup errs

\* Parser.ParseWithClaims
ParseWithClaims_ClaimsFirst(token, keyFunc, t) ==
    IF ParseUnverified(token) # NoError THEN ParseUnverified(token)
    ELSE IF keyFunc[token.alg].err THEN {"ErrTokenUnverifiable"}
    ELSE IF ValidateClaims(token.payload, t) # NoError
         THEN ValidateClaims(token.payload, t)
    ELSE IF ~MethodVerify(token.alg, SigningString(token.alg, token.payload),
                          DecodeSegment(token.sig), keyFunc[token.alg].key)
         THEN {"ErrTokenSignatureInvalid"}
    ELSE NoError

\* Parser.ParseWithClaims: parse, ask the key function (a function of the
\* header's alg) for the key, check the signature, then validate the claims
ParseWithClaims(token, keyFunc, t) ==
    IF ParseUnverified(token) # NoError THEN ParseUnverified(token)
    ELSE IF keyFunc[token.alg].err THEN {"ErrTokenUnverifiable"}
    ELSE IF ~MethodVerify(token.alg, SigningString(token.alg, token.payload),
                          DecodeSegment(token.sig), keyFunc[token.alg].key)
         THEN {"ErrTokenSignatureInvalid"}
    ELSE ValidateClaims(token.payload, t)

\* What ParseUnverified has decoded into the caller's claims struct by the
\* time ParseWithClaims returns, with or without an error
EmptyPayload ==
    [iss |-> "", aud |-> <<>>, iat |-> {}, exp |-> {}, org_id |-> <<>>,
     verified |-> FALSE]

DecodedPayload(token) == IF token.parts = 3 THEN token.payload ELSE EmptyPayload

---------------------------------------------------------------------------
(* src/token.go *)

\* ParseTokenWithPublicKey(tokenString, publicKey, claims) error
ParseTokenWithPublicKey_AnyMethod(tokenString, publicKey, t) ==
    LET keyFunc == [alg \in Algs |-> [err |-> FALSE, key |-> publicKey]]
    IN ParseWithClaims(tokenString, keyFunc, t)

ParseTokenWithPublicKey(tokenString, publicKey, t) ==
    LET keyFunc == [alg \in Algs |->
                       IF ~IsECDSA(alg) THEN [err |-> TRUE, key |-> NoKey]
                       ELSE [err |-> FALSE, key |-> publicKey]]
    IN ParseWithClaims(tokenString, keyFunc, t)

\* The key function shared by the entry points that are given no key
KeylessKeyFunc ==
    [alg \in Algs |->
        IF ~IsECDSA(alg) THEN [err |-> TRUE, key |-> NoKey]
        ELSE [err |-> FALSE, key |-> NoKey]]

\* ParseOrgToken(tokenString) (*OrgTokenClaims, error)
ParseOrgToken(tokenString, t) ==
    IF ParseUnverified(tokenString) # NoError
    THEN {"failed to parse token"} \cup ParseUnverified(tokenString)
    ELSE IF ParseWithClaims(tokenString, KeylessKeyFunc, t) # NoError
    THEN {"failed to parse token"} \cup ParseWithClaims(tokenString, KeylessKeyFunc, t)
    ELSE NoError

\* ParseAgentTokenClaims(tokenString) (*AgentTokenClaims, error)
ParseAgentTokenClaims(tokenString, t) ==
    IF ParseUnverified(tokenString) # NoError
    THEN {"failed to parse token"} \cup ParseUnverified(tokenString)
    ELSE IF ParseWithClaims(tokenString, KeylessKeyFunc, t) # NoError
    THEN {"failed to parse token"} \cup ParseWithClaims(tokenString, KeylessKeyFunc, t)
    ELSE NoError

\* The claim set IssueOrgToken builds
NewOrgClaims_DropVerified(orgID, verified, t) ==
    [iss |-> TokenIssuer, aud |-> <<OrgTokenAudience>>,
     iat |-> NewNumericDate(t),
     exp |-> NewNumericDate(t + DefaultTokenExpiry * TicksPerSecond),
     org_id |-> orgID, verified |-> FALSE]

NewOrgClaims(orgID, verified, t) ==
    [iss |-> TokenIssuer, aud |-> <<OrgTokenAudience>>,
     iat |-> NewNumericDate(t),
     exp |-> NewNumericDate(t + DefaultTokenExpiry * TicksPerSecond),
     org_id |-> orgID, verified |-> verified]

\* IssueOrgToken(orgID, verified, privateKey) (string, error)
IssueOrgToken(orgID, verified, privateKey, t) ==
    SignedString(ES256, MarshalOrgClaims(NewOrgClaims(orgID, verified, t)),
                 privateKey)

\* The org_id comparison of IssueAgentToken
OrgIDMismatch_Skipped(orgClaims, card) == FALSE

OrgIDMismatch(orgClaims, card) == orgClaims.org_id # card.OrgID

\* The claim set IssueAgentToken builds
NewAgentClaims_CardVerified(card, orgClaims, t) ==
    [iss |-> TokenIssuer, aud |-> <<AgentTokenAudience>>,
     iat |-> NewNumericDate(t),
     exp |-> NewNumericDate(t + DefaultTokenExpiry * TicksPerSecond),
     agent_id |-> card.AgentID, org_id |-> card.OrgID,
     verified |-> card.Verified,
     capabilities |-> card.Capabilities]

NewAgentClaims_ReversedCapabilities(card, orgClaims, t) ==
    [iss |-> TokenIssuer, aud |-> <<AgentTokenAudience>>,
     iat |-> NewNumericDate(t),
     exp |-> NewNumericDate(t + DefaultTokenExpiry * TicksPerSecond),
     agent_id |-> card.AgentID, org_id |-> card.OrgID,
     verified |-> orgClaims.verified,
     capabilities |-> [i \in 1..Len(card.Capabilities) |->
                        card.Capabilities[Len(card.Capabilities) + 1 - i]]]

\* The agent token's window cut down to what is left of the org token's
NewAgentClaims_OrgTokenExpiry(card, orgClaims, t) ==
    [iss |-> TokenIssuer, aud |-> <<AgentTokenAudience>>,
     iat |-> NewNumericDate(t),
     exp |-> orgClaims.exp,
     agent_id |-> card.AgentID, org_id |-> card.OrgID,
     verified |-> orgClaims.verified,
     capabilities |-> card.Capabilities]

NewAgentClaims(card, orgClaims, t) ==
    [iss |-> TokenIssuer, aud |-> <<AgentTokenAudience>>,
     iat |-> NewNumericDate(t),
     exp |-> NewNumericDate(t + DefaultTokenExpiry * TicksPerSecond),
     agent_id |-> card.AgentID, org_id |-> card.OrgID,
     verified |-> orgClaims.verified,
     capabilities |-> card.Capabilities]

\* IssueAgentToken(card, orgToken, privateKey) (string, error)
IssueAgentToken_CompareFirst(card, orgToken, privateKey, t) ==
    LET err == ParseTokenWithPublicKey(orgToken, Public(privateKey), t)
        orgClaims == UnmarshalOrgClaims(DecodedPayload(orgToken))
    IN IF OrgIDMismatch(orgClaims, card)
       THEN [token |-> EmptyToken,
             err |-> {"org_id mismatch between card and token"}]
       ELSE IF err # NoError
       THEN [token |-> EmptyToken, err |-> {"invalid org token"} \cup err]
       ELSE [token |-> SignedString(ES256,
                           MarshalAgentClaims(NewAgentClaims(card, orgClaims, t)),
                           privateKey),
             err |-> NoError]

IssueAgentToken(card, orgToken, privateKey, t) ==
    LET err == ParseTokenWithPublicKey(orgToken, Public(privateKey), t)
        orgClaims == UnmarshalOrgClaims(DecodedPayload(orgToken))
    IN IF err # NoError
       THEN [token |-> EmptyToken, err |-> {"invalid org token"} \cup err]
       ELSE IF OrgIDMismatch(orgClaims, card)
       THEN [token |-> EmptyToken,
             err |-> {"org_id mismatch between card and token"}]
       ELSE [token |-> SignedString(ES256,
                           MarshalAgentClaims(NewAgentClaims(card, orgClaims, t)),
                           privateKey),
             err |-> NoError]

---------------------------------------------------------------------------
(* src/agent.go *)

EmptyString == <<>>

\* time.Now().Unix(): the whole seconds of the clock
Unix(t) == t \div TicksPerSecond

\* AgentToken.Validate at time t
AgentTokenValidate_ExpiredAtExp(at, t) ==
    IF at.AgentID = EmptyString THEN {"agent_id is required"}
    ELSE IF at.OrgID = EmptyString THEN {"org_id is required"}
    ELSE IF at.Exp = 0 THEN {"expiration time is required"}
    ELSE IF at.Iss = "" THEN {"issuer is required"}
    ELSE IF at.Aud = "" THEN {"audience is required"}
    ELSE IF Unix(t) >= at.Exp THEN {"token is expired"}
    ELSE NoError

AgentTokenValidate(at, t) ==
    IF at.AgentID = EmptyString THEN {"agent_id is required"}
    ELSE IF at.OrgID = EmptyString THEN {"org_id is required"}
    ELSE IF at.Exp = 0 THEN {"expiration time is required"}
    ELSE IF at.Iss = "" THEN {"issuer is required"}
    ELSE IF at.Aud = "" THEN {"audience is required"}
    ELSE IF Unix(t) > at.Exp THEN {"token is expired"}
    ELSE NoError

\* The AgentToken that ParseAgentToken builds from the MapClaims of a parsed
\* token: getStringClaim yields "" for a member that is absent or is not a
\* JSON string, and aud is an array in every token SignedString writes;
\* getFloatClaim yields 0 for an absent exp.
AgentTokenFromClaims(p) ==
    [AgentID |-> IF "agent_id" \in DOMAIN p THEN p.agent_id ELSE EmptyString,
     OrgID |-> p.org_id,
     Verified |-> p.verified,
     Capabilities |-> IF "capabilities" \in DOMAIN p THEN p.capabilities
                      ELSE <<>>,
     Exp |-> IF p.exp = {} THEN 0 ELSE CHOOSE e \in p.exp : TRUE,
     Iss |-> p.iss,
     Aud |-> ""]

\* ParseAgentToken(tokenString) (*AgentToken, error): jwt.Parse with the
\* keyless key function, the conversion to AgentToken, and its Validate.
ParseAgentToken(tokenString, t) ==
    IF ParseWithClaims(tokenString, KeylessKeyFunc, t) # NoError
    THEN {"failed to parse JWT"} \cup ParseWithClaims(tokenString, KeylessKeyFunc, t)
    ELSE IF AgentTokenValidate(AgentTokenFromClaims(tokenString.payload), t)
               # NoError
    THEN {"invalid token"}
            \cup AgentTokenValidate(AgentTokenFromClaims(tokenString.payload), t)
    ELSE NoError

---------------------------------------------------------------------------
(* Inputs *)

Cards ==
    [AgentID : {StrAgent, StrBad}, OrgID : {StrX, StrY},
     Capabilities : {<<>>, <<StrText, StrForm>>, <<StrBad>>}, Endpoints : {<<>>},
     Verified : BOOLEAN]

OrgIDs == {StrX, StrY, StrBad}

\* Claim sets that a holder of a key signs directly with the JWT library, as
\* TestIssueAgentToken_ExpiredOrgToken does, or that a forger writes by hand
ForgedPayloads ==
    [iss : {TokenIssuer, "evil.platform"},
     aud : {<<OrgTokenAudience>>, <<AgentTokenAudience>>},
     iat : {{}, {0}, {DefaultTokenExpiry}},
     exp : {{}, {0}, {DefaultTokenExpiry}},
     org_id : {StrX}, verified : BOOLEAN]

NoCall == [op |-> "none"]

\* NewAgentClient(baseURL): every field but BaseURL and HTTP is zero
ZeroAgentCard ==
    [AgentID |-> <<>>, OrgID |-> <<>>, Capabilities |-> <<>>,
     Endpoints |-> <<>>, Verified |-> FALSE]
NewAgentClient == [AgentCard |-> ZeroAgentCard, OrgToken |-> "", Token |-> ""]

\* NewService(): three empty maps
NewService == [tasks |-> <<>>, subscribers |-> <<>>, pushEndpoints |-> <<>>]
NoOrigin == [op |-> "none"]

Untampered == origin.op \in {"IssueOrgToken", "IssueAgentToken", "Forge"}

---------------------------------------------------------------------------
(* Actions *)

Init ==
    /\ now = 0
    /\ ticks = 0
    /\ wire = EmptyToken
    /\ origin = NoOrigin
    /\ call = NoCall
    /\ client = NewAgentClient
    /\ tasks = NewService.tasks
    /\ subscribers = NewService.subscribers
    /\ pushEndpoints = NewService.pushEndpoints

\* Time passes between calls; a call and its result are one instant.
Tick ==
    /\ ticks < MaxTicks
    /\ call = NoCall
    /\ \E d \in Steps : now' = now + d
    /\ ticks' = ticks + 1
    /\ UNCHANGED <<wire, origin, call>>
    /\ UNCHANGED <<client, tasks, subscribers, pushEndpoints>>

\* The platform issues an org token.
DoIssueOrgToken ==
    /\ origin = NoOrigin
    /\ \E orgID \in OrgIDs, verified \in BOOLEAN, key \in Keys :
        /\ wire' = IssueOrgToken(orgID, verified, key, now)
        /\ origin' = [op |-> "IssueOrgToken", orgID |-> orgID,
                      verified |-> verified, key |-> key]
    /\ UNCHANGED <<now, ticks, call>>
    /\ UNCHANGED <<client, tasks, subscribers, pushEndpoints>>

\* Somebody builds a token without the issuer: any header algorithm, any
\* claims, signed with a key they hold.
Forge ==
    /\ origin = NoOrigin
    /\ \E alg \in Algs, key \in Keys, payload \in ForgedPayloads :
        /\ wire' = SignedString(alg, payload, key)
        /\ origin' = [op |-> "Forge", key |-> key]
    /\ UNCHANGED <<now, ticks, call>>
    /\ UNCHANGED <<client, tasks, subscribers, pushEndpoints>>

\* The header of the token in hand is altered after signing.
TamperHeader ==
    /\ Untampered /\ call = NoCall
    /\ \E alg \in Algs \ {wire.alg} : wire' = [wire EXCEPT !.alg = alg]
    /\ origin' = [op |-> "Tamper", part |-> "header", key |-> origin.key]
    /\ UNCHANGED <<now, ticks, call>>
    /\ UNCHANGED <<client, tasks, subscribers, pushEndpoints>>

\* One claim of the payload of the token in hand is altered after signing.
TamperPayload ==
    /\ Untampered /\ call = NoCall
    /\ \/ wire' = [wire EXCEPT !.payload.verified = ~@]
       \/ wire' = [wire EXCEPT !.payload.org_id = IF @ = StrX THEN StrY ELSE StrX]
       \/ wire' = [wire EXCEPT !.payload.exp = {2 * DefaultTokenExpiry + 1}]
    /\ origin' = [op |-> "Tamper", part |-> "payload", key |-> origin.key]
    /\ UNCHANGED <<now, ticks, call>>
    /\ UNCHANGED <<client, tasks, subscribers, pushEndpoints>>

\* The signature segment of the token in hand is altered after signing: the
\* unused trailing bits of its last character, or the signature bytes.
TamperSignature ==
    /\ Untampered /\ call = NoCall
    /\ \/ wire' = [wire EXCEPT !.sig.pad = 1]
       \/ wire' = [wire EXCEPT !.sig.signer = NoKey]
    /\ origin' = [op |-> "Tamper", part |-> "signature", key |-> origin.key]
    /\ UNCHANGED <<now, ticks, call>>
    /\ UNCHANGED <<client, tasks, subscribers, pushEndpoints>>

\* The signature segment is cut off.
Truncate ==
    /\ Untampered /\ call = NoCall
    /\ wire' = [parts |-> 2]
    /\ origin' = [op |-> "Tamper", part |-> "segments", key |-> origin.key]
    /\ UNCHANGED <<now, ticks, call>>
    /\ UNCHANGED <<client, tasks, subscribers, pushEndpoints>>

CallIssueAgentToken ==
    /\ origin # NoOrigin /\ call = NoCall
    /\ \E card \in Cards, key \in Keys :
        LET r == IssueAgentToken(card, wire, key, now)
        IN call' = [op |-> "IssueAgentToken", card |-> card, key |-> key,
                    err |-> r.err, token |-> r.token]
    /\ UNCHANGED <<now, ticks, wire, origin>>
    /\ UNCHANGED <<client, tasks, subscribers, pushEndpoints>>

CallParseTokenWithPublicKey ==
    /\ origin # NoOrigin /\ call = NoCall
    /\ \E key \in Keys :
        call' = [op |-> "ParseTokenWithPublicKey", key |-> key, err |-> ParseTokenWithPublicKey(wire, key, now),
                 claims |-> DecodedPayload(wire)]
    /\ UNCHANGED <<now, ticks, wire, origin>>
    /\ UNCHANGED <<client, tasks, subscribers, pushEndpoints>>

CallParseOrgToken ==
    /\ origin # NoOrigin /\ call = NoCall
    /\ call' = [op |-> "ParseOrgToken", err |-> ParseOrgToken(wire, now)]
    /\ UNCHANGED <<now, ticks, wire, origin>>
    /\ UNCHANGED <<client, tasks, subscribers, pushEndpoints>>

CallParseAgentTokenClaims ==
    /\ origin # NoOrigin /\ call = NoCall
    /\ call' = [op |-> "ParseAgentTokenClaims", err |-> ParseAgentTokenClaims(wire, now)]
    /\ UNCHANGED <<now, ticks, wire, origin>>
    /\ UNCHANGED <<client, tasks, subscribers, pushEndpoints>>

CallParseAgentToken ==
    /\ origin # NoOrigin /\ call = NoCall
    /\ call' = [op |-> "ParseAgentToken", err |-> ParseAgentToken(wire, now)]
    /\ UNCHANGED <<now, ticks, wire, origin>>
    /\ UNCHANGED <<client, tasks, subscribers, pushEndpoints>>

\* The agent token just issued becomes the token in hand.
Present ==
    /\ call.op = "IssueAgentToken" /\ call.err = NoError
    /\ wire' = call.token
    /\ origin' = [op |-> "IssueAgentToken", key |-> call.key]
    /\ call' = NoCall
    /\ UNCHANGED <<now, ticks>>
    /\ UNCHANGED <<client, tasks, subscribers, pushEndpoints>>

Next ==
    \/ Tick
    \/ DoIssueOrgToken
    \/ Forge
    \/ TamperHeader
    \/ TamperPayload
    \/ TamperSignature
    \/ Truncate
    \/ CallIssueAgentToken
    \/ CallParseTokenWithPublicKey
    \/ CallParseOrgToken
    \/ CallParseAgentTokenClaims
    \/ CallParseAgentToken
    \/ Present

Spec == Init /\ [][Next]_vars

---------------------------------------------------------------------------
(* Properties *)

\* The claims of the token in hand, as the parser decodes them into
\* OrgTokenClaims
OrgClaimsInHand == UnmarshalOrgClaims(DecodedPayload(wire))

IssuedAgentToken == call.op = "IssueAgentToken" /\ call.err = NoError

\* A string the JSON encoder leaves as it is
ValidUTF8(s) == JSONString(s) = s

\* C1: delegation invariant.  Whenever the presented org token passes
\* verification and the org_id of its claims differs from card.OrgID,
\* IssueAgentToken returns the mismatch error and the empty string; every
\* agent token issued is for a card whose OrgID is the org_id of the
\* presented token.
C1_DelegationInvariant ==
    call.op = "IssueAgentToken" =>
        /\ ( /\ ParseTokenWithPublicKey(wire, Public(call.key), now) = NoError
             /\ OrgClaimsInHand.org_id # call.card.OrgID )
           => /\ call.err = {"org_id mismatch between card and token"}
              /\ call.token = EmptyToken
        /\ call.err = NoError =>
              /\ call.card.OrgID = OrgClaimsInHand.org_id
              /\ call.token.payload.org_id = OrgClaimsInHand.org_id

C1_Witness ==
    /\ call.op = "IssueAgentToken"
    /\ origin.op = "IssueOrgToken"
    /\ ParseTokenWithPublicKey(wire, Public(call.key), now) = NoError
    /\ OrgClaimsInHand.org_id = StrX
    /\ call.card.OrgID = StrY
    /\ call.token = EmptyToken

\* C2: verified-flag inheritance.  The verified claim of every issued agent
\* token is the verified claim of the presented org token, whatever the
\* card's own Verified field says.
C2_VerifiedInherited ==
    IssuedAgentToken =>
        call.token.payload.verified = OrgClaimsInHand.verified

C2_Witness ==
    /\ IssuedAgentToken
    /\ call.card.Verified
    /\ ~OrgClaimsInHand.verified
    /\ ~call.token.payload.verified

\* C3: gate ordering.  When the presented org token fails verification,
\* IssueAgentToken returns the verifier's failure wrapped as an invalid org
\* token, never the mismatch error, and no token, also when the org_id of
\* the token differs from card.OrgID.
C3_VerifyBeforeCompare ==
    ( /\ call.op = "IssueAgentToken"
      /\ ParseTokenWithPublicKey(wire, Public(call.key), now) # NoError )
    => /\ call.err = {"invalid org token"}
                        \cup ParseTokenWithPublicKey(wire, Public(call.key), now)
       /\ "org_id mismatch between card and token" \notin call.err
       /\ call.token = EmptyToken

C3_Witness ==
    /\ call.op = "IssueAgentToken"
    /\ "ErrTokenExpired" \in call.err
    /\ "invalid org token" \in call.err
    /\ OrgClaimsInHand.org_id # call.card.OrgID
    /\ call.token = EmptyToken

\* The signature of the token in hand verifies under the public key pub.
SignatureValidFor(pub) ==
    /\ wire.parts = 3
    /\ MethodVerify(wire.alg, SigningString(wire.alg, wire.payload),
                    DecodeSegment(wire.sig), pub)

\* The exp of the token in hand is present and not in the future.
ExpPassed ==
    /\ wire.parts = 3
    /\ wire.payload.exp # {}
    /\ \E e \in wire.payload.exp : now >= e * TicksPerSecond

\* C4: expiry rejection.  A correctly signed token whose exp is not in the
\* future is rejected by ParseTokenWithPublicKey with the expired failure,
\* which is neither the signature failure nor the malformed failure, and
\* IssueAgentToken presented with it returns an error and no token.
C4_ExpiredRejected ==
    /\ ( /\ call.op = "ParseTokenWithPublicKey"
         /\ SignatureValidFor(call.key)
         /\ ExpPassed )
       => /\ "ErrTokenExpired" \in call.err
          /\ "ErrTokenSignatureInvalid" \notin call.err
          /\ "ErrTokenMalformed" \notin call.err
    /\ ( /\ call.op = "IssueAgentToken"
         /\ SignatureValidFor(Public(call.key))
         /\ ExpPassed )
       => /\ "ErrTokenExpired" \in call.err
          /\ call.token = EmptyToken

C4_Witness ==
    /\ call.op = "IssueAgentToken"
    /\ origin.op = "IssueOrgToken"
    /\ SignatureValidFor(Public(call.key))
    /\ ExpPassed
    /\ wire.payload.exp = {now \div TicksPerSecond}
    /\ call.card.OrgID = wire.payload.org_id
    /\ call.token = EmptyToken

\* The token in hand was returned by IssueOrgToken and is verified inside
\* its validity window against the public key of the key that signed it.
OrgRoundTrip ==
    /\ origin.op = "IssueOrgToken"
    /\ call.op = "ParseTokenWithPublicKey"
    /\ call.key = Public(origin.key)
    /\ \A e \in wire.payload.exp : Before(now, e)

\* C5 as claimed: for every org id, verified value and key pair, the round
\* trip succeeds and yields org_id = orgID, verified = verified, iss =
\* "atoa.platform" and aud = "atoa.agent".
C5_OrgRoundTripEveryOrgID ==
    OrgRoundTrip =>
        /\ call.err = NoError
        /\ call.claims.org_id = origin.orgID
        /\ call.claims.verified = origin.verified
        /\ call.claims.iss = TokenIssuer
        /\ call.claims.aud = <<OrgTokenAudience>>

\* C5 as amended: the round trip succeeds for every org id, and yields
\* org_id = orgID for every org id that is valid UTF-8; the org_id of any
\* other is the org id with its invalid bytes replaced by U+FFFD.
C5_OrgRoundTrip ==
    OrgRoundTrip =>
        /\ call.err = NoError
        /\ ValidUTF8(origin.orgID) => call.claims.org_id = origin.orgID
        /\ call.claims.org_id = JSONString(origin.orgID)
        /\ call.claims.verified = origin.verified
        /\ call.claims.iss = TokenIssuer
        /\ call.claims.aud = <<OrgTokenAudience>>

C5_Witness ==
    /\ OrgRoundTrip
    /\ now > 0
    /\ origin.orgID = StrX
    /\ origin.verified
    /\ call.err = NoError
    /\ call.claims.org_id = StrX
    /\ call.claims.verified

\* The claims a verifier reads from the agent token just issued
IssuedAgentClaims == UnmarshalAgentClaims(DecodedPayload(call.token))

\* C6 as claimed: verifying the token IssueAgentToken returned for card C
\* and org token O yields agent_id = C.AgentID, org_id = C.OrgID = O's
\* org_id, capabilities = C.Capabilities in order, verified = O's verified,
\* aud = "atoa.session" and iss = "atoa.platform".
C6_AgentTokenContentsEveryCard ==
    IssuedAgentToken =>
        /\ ParseTokenWithPublicKey(call.token, Public(call.key), now) = NoError
        /\ IssuedAgentClaims.agent_id = call.card.AgentID
        /\ IssuedAgentClaims.org_id = call.card.OrgID
        /\ IssuedAgentClaims.org_id = OrgClaimsInHand.org_id
        /\ IssuedAgentClaims.capabilities = call.card.Capabilities
        /\ IssuedAgentClaims.verified = OrgClaimsInHand.verified
        /\ IssuedAgentClaims.aud = <<AgentTokenAudience>>
        /\ IssuedAgentClaims.iss = TokenIssuer

\* C6 as amended: the same, with agent_id = C.AgentID and capabilities =
\* C.Capabilities for every AgentID and capability that is valid UTF-8; any
\* other arrives with its invalid bytes replaced by U+FFFD.
C6_AgentTokenContents ==
    IssuedAgentToken =>
        /\ ParseTokenWithPublicKey(call.token, Public(call.key), now) = NoError
        /\ ValidUTF8(call.card.AgentID) =>
               IssuedAgentClaims.agent_id = call.card.AgentID
        /\ IssuedAgentClaims.agent_id = JSONString(call.card.AgentID)
        /\ IssuedAgentClaims.org_id = call.card.OrgID
        /\ IssuedAgentClaims.org_id = OrgClaimsInHand.org_id
        /\ (\A i \in DOMAIN call.card.Capabilities :
                ValidUTF8(call.card.Capabilities[i]))
           => IssuedAgentClaims.capabilities = call.card.Capabilities
        /\ IssuedAgentClaims.capabilities = JSONStrings(call.card.Capabilities)
        /\ IssuedAgentClaims.verified = OrgClaimsInHand.verified
        /\ IssuedAgentClaims.aud = <<AgentTokenAudience>>
        /\ IssuedAgentClaims.iss = TokenIssuer

C6_Witness ==
    /\ IssuedAgentToken
    /\ origin.op = "IssueOrgToken"
    /\ call.card.AgentID = StrAgent
    /\ call.card.Capabilities = <<StrText, StrForm>>
    /\ IssuedAgentClaims.agent_id = StrAgent
    /\ IssuedAgentClaims.capabilities = <<StrText, StrForm>>
    /\ IssuedAgentClaims.verified

\* C7: no false positives on signature.  ParseTokenWithPublicKey succeeds,
\* and IssueAgentToken issues, only for a token in hand that was not altered
\* after signing and whose signature segment is the one the private key
\* matching the public key produced over its header and payload.
C7_NoFalsePositives ==
    /\ ( call.op = "ParseTokenWithPublicKey" /\ call.err = NoError )
       => /\ origin.op # "Tamper"
          /\ wire.sig = ECDSASign(SigningString(wire.alg, wire.payload), call.key)
    /\ IssuedAgentToken
       => /\ origin.op # "Tamper"
          /\ wire.sig = ECDSASign(SigningString(wire.alg, wire.payload), call.key)

ParseEntryPoints ==
    {"ParseTokenWithPublicKey", "ParseOrgToken", "ParseAgentTokenClaims",
     "ParseAgentToken"}

\* C8: algorithm pinning.  Every parsing entry point rejects a three-segment
\* token whose header names a method outside the ECDSA family, and rejects
\* it in the key function (unverifiable), before any signature verification.
C8_AlgorithmPinned ==
    ( /\ call.op \in ParseEntryPoints
      /\ wire.parts = 3
      /\ ~IsECDSA(wire.alg) )
    => /\ "ErrTokenUnverifiable" \in call.err
       /\ "ErrTokenSignatureInvalid" \notin call.err

C8_Witness ==
    /\ call.op = "ParseTokenWithPublicKey"
    /\ origin.op = "Forge"
    /\ wire.alg = "HS256"
    /\ wire.sig.signer = call.key
    /\ ValidateClaims(wire.payload, now) = NoError
    /\ "ErrTokenUnverifiable" \in call.err

\* C9: mandatory temporal fields.  ParseTokenWithPublicKey rejects every
\* token that lacks exp and every token that lacks iat.
C9_TemporalFieldsMandatory ==
    ( /\ call.op = "ParseTokenWithPublicKey"
      /\ wire.parts = 3
      /\ (wire.payload.exp = {} \/ wire.payload.iat = {}) )
    => call.err # NoError

\* C10: org tokens and agent tokens are not interchangeable.  A token that
\* IssueAgentToken returned is never accepted by IssueAgentToken as the org
\* token, so no agent token mints another agent token.
C10_AgentTokenNotOrgToken ==
    ( /\ call.op = "IssueAgentToken"
      /\ origin.op = "IssueAgentToken" )
    => call.err # NoError

\* The claim set carried by the org token in hand, and by the agent token
\* just issued, as written by the issuer
IssuedAtOf(p) == p.iat
ExpiresAtOf(p) == p.exp

\* One issuance step: an org token or an agent token leaves the issuer.
OrgTokenIssuedNow == origin = NoOrigin /\ origin'.op = "IssueOrgToken"
AgentTokenIssuedNow ==
    call = NoCall /\ call'.op = "IssueAgentToken" /\ call'.err = NoError

\* iat and exp of a claim set are one reading t of the clock: iat is t in
\* whole seconds and exp is iat + DefaultTokenExpiry, strictly later.
WindowFrom(p, t) ==
    /\ IssuedAtOf(p) = {t \div TicksPerSecond}
    /\ ExpiresAtOf(p) = {(t \div TicksPerSecond) + DefaultTokenExpiry}
    /\ \A i \in IssuedAtOf(p), e \in ExpiresAtOf(p) : i < e

\* C11: issued-token validity window.  Every claim set built by
\* IssueOrgToken and IssueAgentToken carries iat and exp computed from a
\* single clock reading taken inside the function, with exp = iat + 3600 s,
\* so exp is strictly after iat; the agent token's window starts at its own
\* issuance time and does not depend on the exp of the presented org token.
C11_ValidityWindow ==
    [][ /\ OrgTokenIssuedNow => WindowFrom(wire'.payload, now)
        /\ AgentTokenIssuedNow => WindowFrom(call'.token.payload, now) ]_vars

\* An agent token issued later than the org token it was issued from: its
\* window ends after the org token's does.
C11_Witness ==
    /\ IssuedAgentToken
    /\ origin.op = "IssueOrgToken"
    /\ now >= TicksPerSecond
    /\ \A e \in ExpiresAtOf(wire.payload), a \in ExpiresAtOf(IssuedAgentClaims) :
           a > e

---------------------------------------------------------------------------
(* src/agent.go, src/org.go: card validation *)

\* AgentCard.Validate
AgentCardValidate_EndpointsRequired(ac) ==
    IF ac.AgentID = EmptyString THEN {"agent_id is required"}
    ELSE IF ac.OrgID = EmptyString THEN {"org_id is required"}
    ELSE IF Len(ac.Capabilities) = 0 \/ Len(ac.Endpoints) = 0
    THEN {"at least one capability is required"}
    ELSE NoError

AgentCardValidate(ac) ==
    IF ac.AgentID = EmptyString THEN {"agent_id is required"}
    ELSE IF ac.OrgID = EmptyString THEN {"org_id is required"}
    ELSE IF Len(ac.Capabilities) = 0
    THEN {"at least one capability is required"}
    ELSE NoError

\* DER bytes: what x509.MarshalPKIXPublicKey writes for a key, and bytes
\* that are no PKIX structure at all
MarshalPKIXPublicKey(alg, pub) == [format |-> "PKIX", alg |-> alg, key |-> pub]
GarbageBytes == [format |-> "garbage", alg |-> "none", key |-> NoKey]
RSAKey == "rsa-key"
DERBytes ==
    {MarshalPKIXPublicKey("ECDSA", Public(k)) : k \in Keys}
        \cup {MarshalPKIXPublicKey("RSA", RSAKey), GarbageBytes}

\* A text with its PEM armour: the blocks it holds, in order.  pem.Encode
\* writes one block; a text without a BEGIN line holds none.
PEMEncode(type, bytes) ==
    [empty |-> FALSE, blocks |-> <<[Type |-> type, Bytes |-> bytes]>>]
NoText == [empty |-> TRUE, blocks |-> <<>>]
InvalidKeyText == [empty |-> FALSE, blocks |-> <<>>]

\* pem.Decode(data): the first block, or nil (the empty sequence)
PEMDecode(text) == IF text.blocks = <<>> THEN <<>> ELSE <<Head(text.blocks)>>

PEMTypes == {"PUBLIC KEY", "EC PRIVATE KEY"}
PublicKeyTexts ==
    {NoText, InvalidKeyText}
        \cup {PEMEncode(type, bytes) : type \in PEMTypes, bytes \in DERBytes}

\* OrgCard.Validate
OrgCardValidate_TypeBeforeDecode(c) ==
    IF c.OrgID = EmptyString THEN {"org_id is required"}
    ELSE IF c.Name = EmptyString THEN {"name is required"}
    ELSE IF c.Domain = EmptyString THEN {"domain is required"}
    ELSE IF c.PublicKey.empty THEN {"public_key is required"}
    ELSE IF PEMDecode(c.PublicKey) = <<>> \/ PEMDecode(c.PublicKey)[1].Type # "PUBLIC KEY"
    THEN {"public key must be in PEM format"}
    ELSE NoError

OrgCardValidate(c) ==
    IF c.OrgID = EmptyString THEN {"org_id is required"}
    ELSE IF c.Name = EmptyString THEN {"name is required"}
    ELSE IF c.Domain = EmptyString THEN {"domain is required"}
    ELSE IF c.PublicKey.empty THEN {"public_key is required"}
    ELSE IF PEMDecode(c.PublicKey) = <<>> THEN {"invalid public key format"}
    ELSE IF PEMDecode(c.PublicKey)[1].Type # "PUBLIC KEY"
    THEN {"public key must be in PEM format"}
    ELSE NoError

\* x509.ParsePKIXPublicKey followed by the *ecdsa.PublicKey assertion
parsePublicKey(bytes) ==
    IF bytes.format # "PKIX"
    THEN [key |-> NoKey, err |-> {"x509: failed to parse public key"}]
    ELSE IF bytes.alg # "ECDSA"
    THEN [key |-> NoKey, err |-> {"public key is not an ECDSA key"}]
    ELSE [key |-> bytes.key, err |-> NoError]

(* Inputs *)

AgentCardsToValidate ==
    [AgentID : {EmptyString, StrAgent}, OrgID : {EmptyString, StrX},
     Capabilities : {<<>>, <<StrText>>, <<StrText, StrForm>>},
     Endpoints : {<<>>, <<StrX>>}, Verified : BOOLEAN]

OrgCardsToValidate ==
    [OrgID : {EmptyString, StrX}, Name : {EmptyString, StrY},
     Domain : {EmptyString, StrText}, PublicKey : PublicKeyTexts,
     Verified : BOOLEAN]

(* Actions *)

\* Validate reads the card through its pointer and assigns nothing: the
\* card after the call is the card before it.
CallAgentCardValidate ==
    /\ call = NoCall
    /\ \E ac \in AgentCardsToValidate :
        call' = [op |-> "AgentCard.Validate", card |-> ac, after |-> ac,
                 err |-> AgentCardValidate(ac)]
    /\ UNCHANGED <<now, ticks, wire, origin>>
    /\ UNCHANGED <<client, tasks, subscribers, pushEndpoints>>

CallOrgCardValidate ==
    /\ call = NoCall
    /\ \E c \in OrgCardsToValidate :
        call' = [op |-> "OrgCard.Validate", card |-> c, after |-> c,
                 err |-> OrgCardValidate(c)]
    /\ UNCHANGED <<now, ticks, wire, origin>>
    /\ UNCHANGED <<client, tasks, subscribers, pushEndpoints>>

\* The caller has looked at the result.
ValidateReturn ==
    /\ call.op \in {"AgentCard.Validate", "OrgCard.Validate"}
    /\ call' = NoCall
    /\ UNCHANGED <<now, ticks, wire, origin>>
    /\ UNCHANGED <<client, tasks, subscribers, pushEndpoints>>

CardNext ==
    \/ CallAgentCardValidate
    \/ CallOrgCardValidate
    \/ ValidateReturn

CardSpec == Init /\ [][CardNext]_vars

---------------------------------------------------------------------------
(* Properties of card validation *)

\* The key text holds a "PUBLIC KEY" block whose bytes are a public key.
StructurallyValidPublicKey(text) ==
    /\ PEMDecode(text) # <<>>
    /\ PEMDecode(text)[1].Type = "PUBLIC KEY"
    /\ PEMDecode(text)[1].Bytes.format = "PKIX"

\* C12: OrgCard.Validate accepts a card if and only if OrgID, Name, Domain
\* and PublicKey are all non-empty and PublicKey is a structurally valid
\* public key; a "PUBLIC KEY" block whose bytes do not parse as a public key
\* is rejected.
C12_OrgCardAcceptedIffValidKey ==
    call.op = "OrgCard.Validate" =>
        ( call.err = NoError <=>
            /\ call.card.OrgID # EmptyString
            /\ call.card.Name # EmptyString
            /\ call.card.Domain # EmptyString
            /\ ~call.card.PublicKey.empty
            /\ StructurallyValidPublicKey(call.card.PublicKey) )

\* The checks of OrgCard.Validate in the order of the source, each with the
\* condition under which it fails and the error it returns
OrgCardFailures(c) ==
    << c.OrgID = EmptyString,
       c.Name = EmptyString,
       c.Domain = EmptyString,
       c.PublicKey.empty,
       PEMDecode(c.PublicKey) = <<>>,
       PEMDecode(c.PublicKey) # <<>> /\ PEMDecode(c.PublicKey)[1].Type # "PUBLIC KEY" >>

OrgCardErrors ==
    << "org_id is required", "name is required", "domain is required",
       "public_key is required", "invalid public key format",
       "public key must be in PEM format" >>

\* C13: OrgCard.Validate reports its rejection causes with pairwise
\* distinct errors, checked in the fixed order org_id, name, domain,
\* public_key empty, undecodable PEM, wrong block type: the error returned
\* is that of the first failing check, and a wrong-type block is reported
\* differently from an undecodable text.
C13_FirstFailingCheck ==
    call.op = "OrgCard.Validate" =>
        LET failed == OrgCardFailures(call.card)
        IN /\ \A i, j \in 1..6 : i # j => OrgCardErrors[i] # OrgCardErrors[j]
           /\ \A i \in 1..6 :
                (failed[i] /\ \A j \in 1..(i - 1) : ~failed[j])
                    => call.err = {OrgCardErrors[i]}
           /\ call.err # NoError => \E i \in 1..6 : failed[i]

\* A card whose only fault is a key text that holds no PEM block: the
\* error is that of the undecodable text, not that of the wrong type.
C13_Witness ==
    /\ call.op = "OrgCard.Validate"
    /\ call.card.OrgID # EmptyString
    /\ call.card.Name # EmptyString
    /\ call.card.Domain # EmptyString
    /\ call.card.PublicKey = InvalidKeyText
    /\ call.err = {"invalid public key format"}

\* C14: AgentCard.Validate returns nil exactly when AgentID is non-empty,
\* OrgID is non-empty and Capabilities has at least one element; Endpoints
\* and Verified never affect the result; the card is not modified.
C14_AgentCardAcceptedIff ==
    call.op = "AgentCard.Validate" =>
        /\ call.err = NoError <=>
              /\ call.card.AgentID # EmptyString
              /\ call.card.OrgID # EmptyString
              /\ Len(call.card.Capabilities) >= 1
        /\ \A other \in AgentCardsToValidate :
              ( /\ other.AgentID = call.card.AgentID
                /\ other.OrgID = call.card.OrgID
                /\ other.Capabilities = call.card.Capabilities )
              => AgentCardValidate(other) = call.err
        /\ call.after = call.card

\* A card without endpoints and not verified is accepted.
C14_Witness ==
    /\ call.op = "AgentCard.Validate"
    /\ call.card.Endpoints = <<>>
    /\ ~call.card.Verified
    /\ Len(call.card.Capabilities) = 1
    /\ call.err = NoError

\* C15: IssueAgentToken never returns a token for a card that
\* AgentCard.Validate would reject.
C15_IssuedOnlyForValidCards ==
    IssuedAgentToken => AgentCardValidate(call.card) = NoError

---------------------------------------------------------------------------
(* src/org.go: challenge signatures *)

\* sha256.Sum256([]byte(challenge)): the digest stands for the bytes hashed
Sha256(bytes) == <<"sha256", bytes>>

\* ecdsa.SignASN1(rand.Reader, privateKey, hash): the DER signature
SignASN1(priv, hash) == [signer |-> priv, over |-> hash]

\* ecdsa.VerifyASN1(pub, hash, sig)
VerifyASN1_AnyDigest(pub, hash, sig) == pub # NoKey /\ sig.signer = pub

VerifyASN1(pub, hash, sig) ==
    pub # NoKey /\ sig.signer = pub /\ sig.over = hash

\* base64.StdEncoding.EncodeToString(src): a well-formed text whose last
\* character has its unused bits zero
StdEncodeToString(src) == [wellformed |-> TRUE, bytes |-> src, trailing |-> 0]

\* base64.StdEncoding.DecodeString(s): fails on a character outside the
\* alphabet or wrong padding; the unused bits of the last character are
\* not looked at
StdDecodeString(s) ==
    IF s.wellformed
    THEN [bytes |-> s.bytes, err |-> NoError]
    ELSE [bytes |-> s.bytes, err |-> {"illegal base64 data"}]

\* SignChallenge(challenge, privateKey) (string, error)
SignChallenge(challenge, privateKey) ==
    StdEncodeToString(SignASN1(privateKey, Sha256(challenge)))

\* VerifySignature(challenge, signature, publicKeyPEM) (bool, error)
VerifySignature_ErrorOnMismatch(challenge, signature, publicKeyPEM) ==
    LET block == PEMDecode(publicKeyPEM)
        sig == StdDecodeString(signature)
    IN IF block = <<>>
       THEN [ok |-> FALSE, err |-> {"invalid public key format"}]
       ELSE IF parsePublicKey(block[1].Bytes).err # NoError
       THEN [ok |-> FALSE,
             err |-> {"failed to parse public key"}
                        \cup parsePublicKey(block[1].Bytes).err]
       ELSE IF sig.err # NoError
       THEN [ok |-> FALSE, err |-> {"invalid signature format"} \cup sig.err]
       ELSE IF ~VerifyASN1(parsePublicKey(block[1].Bytes).key,
                           Sha256(challenge), sig.bytes)
       THEN [ok |-> FALSE, err |-> {"signature mismatch"}]
       ELSE [ok |-> TRUE, err |-> NoError]

VerifySignature(challenge, signature, publicKeyPEM) ==
    LET block == PEMDecode(publicKeyPEM)
        sig == StdDecodeString(signature)
    IN IF block = <<>>
       THEN [ok |-> FALSE, err |-> {"invalid public key format"}]
       ELSE IF parsePublicKey(block[1].Bytes).err # NoError
       THEN [ok |-> FALSE,
             err |-> {"failed to parse public key"}
                        \cup parsePublicKey(block[1].Bytes).err]
       ELSE IF sig.err # NoError
       THEN [ok |-> FALSE, err |-> {"invalid signature format"} \cup sig.err]
       ELSE [ok |-> VerifyASN1(parsePublicKey(block[1].Bytes).key,
                               Sha256(challenge), sig.bytes),
             err |-> NoError]

(* Inputs *)

Challenges == {EmptyString, StrX, StrY, StrBad}

\* The PEM text of a key pair's public key, as the tests build it
PublicKeyPEM(priv) ==
    PEMEncode("PUBLIC KEY", MarshalPKIXPublicKey("ECDSA", Public(priv)))

(* Actions *)

\* The organization signs a challenge.
DoSignChallenge ==
    /\ origin = NoOrigin
    /\ \E challenge \in Challenges, priv \in Keys :
        /\ wire' = SignChallenge(challenge, priv)
        /\ origin' = [op |-> "SignChallenge", challenge |-> challenge,
                      key |-> priv]
    /\ UNCHANGED <<now, ticks, call>>
    /\ UNCHANGED <<client, tasks, subscribers, pushEndpoints>>

\* The signature text is altered on its way: a character outside the
\* alphabet, the unused bits of the last character, or the signature bytes.
TamperSignatureText ==
    /\ origin.op = "SignChallenge" /\ call = NoCall
    /\ \/ wire' = [wire EXCEPT !.wellformed = FALSE]
       \/ wire' = [wire EXCEPT !.trailing = 1]
       \/ wire' = [wire EXCEPT !.bytes.signer = NoKey]
    /\ origin' = [op |-> "TamperSignatureText", challenge |-> origin.challenge,
                  key |-> origin.key]
    /\ UNCHANGED <<now, ticks, call>>
    /\ UNCHANGED <<client, tasks, subscribers, pushEndpoints>>

CallVerifySignature ==
    /\ origin # NoOrigin /\ call = NoCall
    /\ \E challenge \in Challenges, publicKeyPEM \in PublicKeyTexts :
        LET r == VerifySignature(challenge, wire, publicKeyPEM)
        IN call' = [op |-> "VerifySignature", challenge |-> challenge,
                    publicKeyPEM |-> publicKeyPEM, ok |-> r.ok, err |-> r.err]
    /\ UNCHANGED <<now, ticks, wire, origin>>
    /\ UNCHANGED <<client, tasks, subscribers, pushEndpoints>>

\* The caller has looked at the result.
VerifyReturn ==
    /\ call.op = "VerifySignature"
    /\ call' = NoCall
    /\ UNCHANGED <<now, ticks, wire, origin>>
    /\ UNCHANGED <<client, tasks, subscribers, pushEndpoints>>

SigNext ==
    \/ DoSignChallenge
    \/ TamperSignatureText
    \/ CallVerifySignature
    \/ VerifyReturn

SigSpec == Init /\ [][SigNext]_vars

---------------------------------------------------------------------------
(* Properties of challenge signatures *)

\* C16: challenge-signature round trip.  For every challenge and key pair
\* VerifySignature(challenge, SignChallenge(challenge, priv), PEM(pub)) is
\* (true, nil); the result is false when the challenge differs or when the
\* public key of a different key pair is supplied.
C16_ChallengeRoundTrip ==
    ( /\ call.op = "VerifySignature"
      /\ origin.op = "SignChallenge" )
    => \A k \in Keys :
          call.publicKeyPEM = PublicKeyPEM(k) =>
             IF call.challenge = origin.challenge /\ k = origin.key
             THEN call.ok /\ call.err = NoError
             ELSE ~call.ok

\* The signature of a challenge verified with the signer's public key
C16_Witness ==
    /\ call.op = "VerifySignature"
    /\ origin.op = "SignChallenge"
    /\ call.challenge = origin.challenge
    /\ call.publicKeyPEM = PublicKeyPEM(origin.key)
    /\ call.ok

\* C17: VerifySignature returns (false, non-nil error) exactly when the PEM
\* block is absent, the key bytes do not yield an ECDSA public key, or the
\* signature is not valid base64; in every other case the error is nil, and
\* the boolean is false for a decodable signature that does not verify.  It
\* never returns true together with a non-nil error.
C17_ErrorVersusFalse ==
    call.op = "VerifySignature" =>
        LET block == PEMDecode(call.publicKeyPEM)
            couldNotCheck ==
                \/ block = <<>>
                \/ block # <<>> /\ ~( /\ block[1].Bytes.format = "PKIX"
                                      /\ block[1].Bytes.alg = "ECDSA" )
                \/ ~wire.wellformed
        IN /\ call.err # NoError <=> couldNotCheck
           /\ call.err # NoError => ~call.ok
           /\ ( /\ ~couldNotCheck
                /\ \/ wire.bytes.signer # block[1].Bytes.key
                   \/ wire.bytes.over # Sha256(call.challenge) )
              => (~call.ok /\ call.err = NoError)

\* Checked and failed: a decodable signature with altered bytes
C17_Witness ==
    /\ call.op = "VerifySignature"
    /\ origin.op = "TamperSignatureText"
    /\ wire.wellformed
    /\ wire.bytes.signer = NoKey
    /\ call.publicKeyPEM = PublicKeyPEM(origin.key)
    /\ call.challenge = origin.challenge
    /\ ~call.ok
    /\ call.err = NoError

---------------------------------------------------------------------------
(* src/client.go, src/offer.go, src/message.go: the agent client *)

\* What the platform answers to one request: the transport fails, or a
\* status code comes back with a body; token is what the body decodes to
\* (the token field for /agents/token, the challenge for /orgs/register).
TransportError == [sent |-> FALSE, status |-> 0, token |-> ""]
StatusOK == 200
StatusCreated == 201
StatusUnauthorized == 401

\* The request a client method hands to c.HTTP; Authorization is the set of
\* values of that header, empty when the header is not set.
Request(method, path, authorization, body) ==
    [method |-> method, path |-> path, Authorization |-> authorization,
     body |-> body]

\* "Bearer "+c.Token under `if c.Token != ""`
BearerHeader(c) == IF c.Token # "" THEN {"Bearer " \o c.Token} ELSE {}

\* c.HTTP.Post / c.HTTP.Do followed by the status check of each method
Outcome(resp, wantStatus, failure) ==
    IF ~resp.sent THEN {failure}
    ELSE IF resp.status # wantStatus THEN {"unexpected status code"}
    ELSE NoError

\* AgentClient.RegisterAgent(card, orgToken) (string, error).  No field of
\* the client is assigned.
RegisterAgent(c, card, orgToken, resp) ==
    IF AgentCardValidate(card) # NoError
    THEN [requests |-> {}, token |-> "", client |-> c,
          err |-> {"invalid agent card"} \cup AgentCardValidate(card)]
    ELSE LET err == Outcome(resp, StatusOK, "failed to register agent")
         IN [requests |-> {Request("POST", "/agents/token", {},
                               [agent_card |-> card, org_token |-> orgToken])},
             token |-> IF err = NoError THEN resp.token ELSE "",
             client |-> c,
             err |-> err]

\* AgentClient.JoinSession(sessionID, agentToken) error: c.HTTP.Post sets
\* the Content-Type header only; the token travels in the body.
JoinSession(c, sessionID, agentToken, resp) ==
    [requests |-> {Request("POST", "/sessions/join", {},
                       [session_id |-> sessionID, token |-> agentToken])},
     err |-> Outcome(resp, StatusOK, "failed to join session")]

\* AgentClient.ListOffers(ctx) ([]Offer, error); the result is a set, empty
\* for nil.
ListOffers(c, resp) ==
    LET err == Outcome(resp, StatusOK, "failed to send request")
    IN [requests |-> {Request("GET", "/offers", BearerHeader(c), <<>>)},
        result |-> IF err = NoError THEN {resp.token} ELSE {},
        err |-> err]

\* AgentClient.CreateSession(ctx, offerID) (*Session, error)
CreateSession(c, offerID, resp) ==
    LET err == Outcome(resp, StatusCreated, "failed to send request")
    IN [requests |-> {Request("POST", "/sessions", BearerHeader(c),
                          [offer_id |-> offerID])},
        result |-> IF err = NoError THEN {resp.token} ELSE {},
        err |-> err]

\* A2AMessage.Validate; Payload and Timestamp are sets, empty for a nil
\* payload and for the zero time
A2AMessageValidate(m) ==
    IF m.SessionID = "" THEN {"session_id is required"}
    ELSE IF m.FromAgentID = "" THEN {"from_agent_id is required"}
    ELSE IF m.ToAgentID = "" THEN {"to_agent_id is required"}
    ELSE IF m.Type = "" THEN {"type is required"}
    ELSE IF m.Payload = {} THEN {"payload is required"}
    ELSE IF m.Timestamp = {} THEN {"timestamp is required"}
    ELSE NoError

\* OrgClient.RegisterOrg(card) (string, error)
RegisterOrg(card, resp) ==
    IF OrgCardValidate(card) # NoError
    THEN [requests |-> {}, challenge |-> "",
          err |-> {"invalid org card"} \cup OrgCardValidate(card)]
    ELSE LET err == Outcome(resp, StatusOK, "failed to register org")
         IN [requests |-> {Request("POST", "/orgs/register", {}, card)},
             challenge |-> IF err = NoError THEN resp.token ELSE "",
             err |-> err]

\* AgentClient.SendMessage(ctx, msg) error
SendMessage_SendBeforeValidate(c, msg, resp) ==
    [requests |-> {Request("POST", "/messages", BearerHeader(c), msg)},
     err |-> IF A2AMessageValidate(msg) # NoError
             THEN {"invalid message"} \cup A2AMessageValidate(msg)
             ELSE Outcome(resp, StatusOK, "failed to send request")]

SendMessage(c, msg, resp) ==
    IF A2AMessageValidate(msg) # NoError
    THEN [requests |-> {},
          err |-> {"invalid message"} \cup A2AMessageValidate(msg)]
    ELSE [requests |-> {Request("POST", "/messages", BearerHeader(c), msg)},
          err |-> Outcome(resp, StatusOK, "failed to send request")]

(* Inputs *)

PlatformTokens == {"agent-token", "test-token"}

Responses ==
    {TransportError}
        \cup [sent : {TRUE}, status : {StatusOK, StatusCreated, StatusUnauthorized},
              token : PlatformTokens]

RegisterCards ==
    [AgentID : {StrAgent}, OrgID : {StrX},
     Capabilities : {<<>>, <<StrText>>}, Endpoints : {<<>>},
     Verified : {FALSE}]

\* The cards handed to RegisterOrg: a valid one, one without a name, and one
\* whose public key is not PEM
RegisterOrgCards ==
    {c \in OrgCardsToValidate :
        /\ c.OrgID = StrX
        /\ c.Domain = StrText
        /\ ~c.Verified
        /\ \/ OrgCardValidate(c) = NoError
           \/ c.Name = EmptyString
           \/ c.PublicKey = InvalidKeyText}

Messages ==
    [SessionID : {"", "session-1"}, FromAgentID : {"agent-1"},
     ToAgentID : {"agent-2"}, Type : {"text"},
     Payload : {{}, {"{}"}}, Timestamp : {{1}}]

(* Actions *)

\* The caller registers the agent; on success it holds the token returned.
CallRegisterAgent ==
    /\ call = NoCall
    /\ \E card \in RegisterCards, resp \in Responses :
        LET r == RegisterAgent(client, card, "valid-token", resp)
        IN /\ call' = [op |-> "RegisterAgent", requests |-> r.requests,
                       err |-> r.err, input |-> card, resp |-> resp,
                       result |-> r.token]
           /\ client' = r.client
           /\ IF r.err = NoError
              THEN wire' = r.token /\ origin' = [op |-> "RegisterAgent"]
              ELSE UNCHANGED <<wire, origin>>
    /\ UNCHANGED <<now, ticks, tasks, subscribers, pushEndpoints>>

\* The caller assigns the exported Token field, as the tests of offer.go do.
SetToken ==
    /\ call = NoCall
    /\ \E token \in PlatformTokens \cup {""} :
        /\ client.Token # token
        /\ client' = [client EXCEPT !.Token = token]
    /\ origin' = [op |-> "SetToken"]
    /\ UNCHANGED <<now, ticks, wire, call, tasks, subscribers, pushEndpoints>>

CallListOffers ==
    /\ call = NoCall
    /\ \E resp \in Responses :
        LET r == ListOffers(client, resp)
        IN call' = [op |-> "ListOffers", requests |-> r.requests, err |-> r.err,
                    input |-> {}, resp |-> resp, result |-> r.result]
    /\ UNCHANGED <<now, ticks, wire, origin, client>>
    /\ UNCHANGED <<tasks, subscribers, pushEndpoints>>

CallCreateSession ==
    /\ call = NoCall
    /\ \E resp \in Responses :
        LET r == CreateSession(client, "offer-1", resp)
        IN call' = [op |-> "CreateSession", requests |-> r.requests,
                    err |-> r.err, input |-> "offer-1", resp |-> resp,
                    result |-> r.result]
    /\ UNCHANGED <<now, ticks, wire, origin, client>>
    /\ UNCHANGED <<tasks, subscribers, pushEndpoints>>

CallSendMessage ==
    /\ call = NoCall
    /\ \E msg \in Messages, resp \in Responses :
        LET r == SendMessage(client, msg, resp)
        IN call' = [op |-> "SendMessage", requests |-> r.requests, err |-> r.err,
                    input |-> msg, resp |-> resp, result |-> {}]
    /\ UNCHANGED <<now, ticks, wire, origin, client>>
    /\ UNCHANGED <<tasks, subscribers, pushEndpoints>>

CallRegisterOrg ==
    /\ call = NoCall
    /\ \E card \in RegisterOrgCards, resp \in Responses :
        LET r == RegisterOrg(card, resp)
        IN call' = [op |-> "RegisterOrg", requests |-> r.requests, err |-> r.err,
                    input |-> card, resp |-> resp, result |-> r.challenge]
    /\ UNCHANGED <<now, ticks, wire, origin, client>>
    /\ UNCHANGED <<tasks, subscribers, pushEndpoints>>

\* The caller joins a session with the token it holds.
CallJoinSession ==
    /\ call = NoCall
    /\ origin.op = "RegisterAgent"
    /\ \E resp \in Responses :
        LET r == JoinSession(client, "session-1", wire, resp)
        IN call' = [op |-> "JoinSession", requests |-> r.requests, err |-> r.err,
                    input |-> "session-1", resp |-> resp, result |-> {}]
    /\ UNCHANGED <<now, ticks, wire, origin, client>>
    /\ UNCHANGED <<tasks, subscribers, pushEndpoints>>

\* The method has returned.
ClientReturn ==
    /\ call.op \in {"RegisterAgent", "ListOffers", "CreateSession",
                    "SendMessage", "JoinSession", "RegisterOrg"}
    /\ call' = NoCall
    /\ UNCHANGED <<now, ticks, wire, origin, client>>
    /\ UNCHANGED <<tasks, subscribers, pushEndpoints>>

ClientNext ==
    \/ CallRegisterAgent
    \/ SetToken
    \/ CallListOffers
    \/ CallCreateSession
    \/ CallSendMessage
    \/ CallJoinSession
    \/ CallRegisterOrg
    \/ ClientReturn

ClientSpec == Init /\ [][ClientNext]_vars

---------------------------------------------------------------------------
(* Properties of the agent client *)

\* The client registered successfully and the caller has not overwritten
\* its Token field since; wire is the token the platform returned.
Registered == origin.op = "RegisterAgent"

\* C18: client token lifecycle.  After a successful RegisterAgent the token
\* returned by the platform is stored by the client, and every later
\* request of that client (ListOffers, CreateSession, SendMessage,
\* JoinSession) carries the header Authorization: Bearer <that token>.
C18_BearerOnEveryRequest ==
    Registered =>
        /\ client.Token = wire
        /\ call.op \in {"ListOffers", "CreateSession", "SendMessage",
                        "JoinSession"}
              => \A req \in call.requests :
                    req.Authorization = {"Bearer " \o wire}

---------------------------------------------------------------------------
(* src/unnamed/part_000, part_001, part_002: the task service *)

MaxSubscribers == 1
MaxQueued == 2
ChannelCapacity == 10

\* A Go map: a function whose domain is the set of keys present
MapSet(m, k, v) == [x \in DOMAIN m \cup {k} |-> IF x = k THEN v ELSE m[x]]

\* The service under its mutex: every method below runs with s.mu held, so
\* it reads and writes the three maps in one step.
Service == [tasks |-> tasks, subscribers |-> subscribers,
            pushEndpoints |-> pushEndpoints]

\* Errors of the task package
PlainError(msg) == {[type |-> "error", TaskID |-> "", msg |-> msg]}
TaskNotFoundError(taskID) ==
    {[type |-> "TaskNotFoundError", TaskID |-> taskID, msg |-> "Task not found"]}

\* ErrorToRPCError(err) *RPCError
ErrorToRPCError(err) ==
    IF \E e \in err : e.type = "TaskNotFoundError"
    THEN [Code |-> -32001, Message |-> (CHOOSE e \in err : TRUE).msg]
    ELSE IF \E e \in err : e.type = "TaskNotCancelableError"
    THEN [Code |-> -32002, Message |-> (CHOOSE e \in err : TRUE).msg]
    ELSE IF \E e \in err : e.type = "UnsupportedOperationError"
    THEN [Code |-> -32003, Message |-> (CHOOSE e \in err : TRUE).msg]
    ELSE [Code |-> -32603, Message |-> "Internal error"]

StatusUpdate(status) == [Type |-> "status_update", Status |-> status]
Submitted == [State |-> "submitted", Message |-> ""]
ZeroTask ==
    [ID |-> "", SessionID |-> "", Message |-> [Text |-> ""],
     Status |-> [State |-> "", Message |-> ""], Metadata |-> {}]

\* One non-blocking send: `select { case ch <- event: default: }`
TrySend(ch, event) ==
    IF Len(ch) < ChannelCapacity THEN Append(ch, event) ELSE ch

\* notifySubscribers(taskID, event): every channel of the task, in order
notifySubscribers(subs, taskID, event) ==
    IF taskID \in DOMAIN subs
    THEN [subs EXCEPT ![taskID] =
              [i \in 1..Len(subs[taskID]) |-> TrySend(subs[taskID][i], event)]]
    ELSE subs

\* Service.SendTask(req) (SendTaskResponse, error)
SendTask_StoreBeforeCheck(s, req) ==
    LET task == [ID |-> req.Params.ID,
                 SessionID |-> req.Params.SessionID,
                 Message |-> req.Params.Message,
                 Status |-> Submitted,
                 Metadata |-> req.Params.Metadata]
        stored == [s EXCEPT !.tasks = MapSet(s.tasks, task.ID, task)]
    IN IF req.Params.Message.Text = ""
       THEN [s |-> stored,
             resp |-> [JSONRPC |-> "", ID |-> "", Result |-> ZeroTask],
             err |-> PlainError("message text is required")]
       ELSE [s |-> [stored EXCEPT
                      !.subscribers = notifySubscribers(s.subscribers, task.ID,
                                          StatusUpdate(task.Status))],
             resp |-> [JSONRPC |-> "2.0", ID |-> req.ID, Result |-> task],
             err |-> NoError]

\* Service.SubscribeToTaskUpdates(req)
SubscribeToTaskUpdates_NoSnapshot(s, req) ==
    IF req.JSONRPC # "2.0"
    THEN [s |-> s, result |-> "", err |-> PlainError("invalid JSON-RPC version")]
    ELSE LET taskID == req.Params.TaskID
             before == IF taskID \in DOMAIN s.subscribers
                       THEN s.subscribers[taskID] ELSE <<>>
         IN [s |-> [s EXCEPT !.subscribers =
                        MapSet(s.subscribers, taskID, Append(before, <<>>))],
             result |-> "subscribed", err |-> NoError]

SendTask(s, req) ==
    IF req.Params.Message.Text = ""
    THEN [s |-> s, resp |-> [JSONRPC |-> "", ID |-> "", Result |-> ZeroTask],
          err |-> PlainError("message text is required")]
    ELSE LET task == [ID |-> req.Params.ID,
                      SessionID |-> req.Params.SessionID,
                      Message |-> req.Params.Message,
                      Status |-> Submitted,
                      Metadata |-> req.Params.Metadata]
         IN [s |-> [s EXCEPT
                      !.tasks = MapSet(s.tasks, task.ID, task),
                      !.subscribers = notifySubscribers(s.subscribers, task.ID,
                                          StatusUpdate(task.Status))],
             resp |-> [JSONRPC |-> "2.0", ID |-> req.ID, Result |-> task],
             err |-> NoError]

\* Service.SubscribeToTaskUpdates(req): a new channel is appended to the
\* task's list and, if the task exists, receives its current status.
SubscribeToTaskUpdates(s, req) ==
    IF req.JSONRPC # "2.0"
    THEN [s |-> s, result |-> "", err |-> PlainError("invalid JSON-RPC version")]
    ELSE LET taskID == req.Params.TaskID
             before == IF taskID \in DOMAIN s.subscribers
                       THEN s.subscribers[taskID] ELSE <<>>
             ch == IF taskID \in DOMAIN s.tasks
                   THEN <<StatusUpdate(s.tasks[taskID].Status)>> ELSE <<>>
         IN [s |-> [s EXCEPT !.subscribers =
                        MapSet(s.subscribers, taskID, Append(before, ch))],
             result |-> "subscribed", err |-> NoError]

\* Service.SetPushNotification(req)
SetPushNotification(s, req) ==
    IF req.JSONRPC # "2.0"
    THEN [s |-> s, result |-> [TaskID |-> "", Endpoint |-> ""],
          err |-> PlainError("invalid JSON-RPC version")]
    ELSE [s |-> [s EXCEPT !.pushEndpoints =
                    MapSet(s.pushEndpoints, req.Params.TaskID, req.Params.Endpoint)],
          result |-> [TaskID |-> req.Params.TaskID,
                      Endpoint |-> req.Params.Endpoint],
          err |-> NoError]

\* Service.GetTask(taskID) (*Task, error)
GetTask(s, taskID) ==
    IF taskID \notin DOMAIN s.tasks
    THEN [task |-> ZeroTask, err |-> TaskNotFoundError(taskID)]
    ELSE [task |-> s.tasks[taskID], err |-> NoError]

\* Service.UpdateTaskStatus(taskID, status) error
UpdateTaskStatus_KeepFirstStatus(s, taskID, status) ==
    IF taskID \notin DOMAIN s.tasks
    THEN [s |-> s, err |-> TaskNotFoundError(taskID)]
    ELSE [s |-> [s EXCEPT
                   !.tasks[taskID].Status =
                       IF @ = Submitted THEN status ELSE @,
                   !.subscribers = notifySubscribers(s.subscribers, taskID,
                                       StatusUpdate(status))],
          err |-> NoError]

UpdateTaskStatus_CreateMissing(s, taskID, status) ==
    [s |-> [s EXCEPT
              !.tasks = MapSet(s.tasks, taskID,
                            IF taskID \in DOMAIN s.tasks
                            THEN [s.tasks[taskID] EXCEPT !.Status = status]
                            ELSE [ZeroTask EXCEPT !.ID = taskID, !.Status = status]),
              !.subscribers = notifySubscribers(s.subscribers, taskID,
                                  StatusUpdate(status))],
     err |-> IF taskID \in DOMAIN s.tasks THEN NoError
             ELSE TaskNotFoundError(taskID)]

UpdateTaskStatus(s, taskID, status) ==
    IF taskID \notin DOMAIN s.tasks
    THEN [s |-> s, err |-> TaskNotFoundError(taskID)]
    ELSE [s |-> [s EXCEPT
                   !.tasks[taskID].Status = status,
                   !.subscribers = notifySubscribers(s.subscribers, taskID,
                                       StatusUpdate(status))],
          err |-> NoError]

(* Inputs *)

TaskIDs == {"task-123", "unknown-task"}

\* The ids that callers send tasks under; "unknown-task" is never sent.
SentTaskIDs == {"task-123"}

SendTaskRequests ==
    [JSONRPC : {"2.0"}, ID : {"1"}, Method : {"tasks/send"},
     Params : [ID : SentTaskIDs,
               SessionID : {"session-abc", "session-xyz"},
               Message : [Text : {"", "Please process this file"}],
               Status : {[State |-> "", Message |-> ""],
                         [State |-> "completed", Message |-> ""]},
               Metadata : {{}, {<<"priority", "high">>}}]]

Statuses ==
    {[State |-> "working", Message |-> ""],
     [State |-> "completed", Message |-> "done"]}

SubscribeRequests ==
    [JSONRPC : {"2.0", "1.0"}, ID : {"2"}, Method : {"tasks/sendSubscribe"},
     Params : [TaskID : TaskIDs]]

PushRequests ==
    [JSONRPC : {"2.0", "1.0"}, ID : {"3"},
     Method : {"tasks/pushNotification/set"},
     Params : [TaskID : TaskIDs, Endpoint : {"https://example.com/hook"}]]

\* The exploration stops growing a channel at MaxQueued events and a
\* subscriber list at MaxSubscribers channels.
Queued(taskID) ==
    taskID \in DOMAIN subscribers
        /\ \E i \in 1..Len(subscribers[taskID]) :
              Len(subscribers[taskID][i]) >= MaxQueued

(* Actions *)

CallSendTask ==
    /\ call = NoCall
    /\ \E req \in SendTaskRequests :
        /\ ~Queued(req.Params.ID)
        /\ LET r == SendTask(Service, req)
           IN /\ tasks' = r.s.tasks
              /\ subscribers' = r.s.subscribers
              /\ pushEndpoints' = r.s.pushEndpoints
              /\ call' = [op |-> "SendTask", taskID |-> req.Params.ID,
                          req |-> req, task |-> r.resp.Result, err |-> r.err]
    /\ UNCHANGED <<now, ticks, wire, origin, client>>

CallSubscribeToTaskUpdates ==
    /\ call = NoCall
    /\ \E req \in SubscribeRequests :
        /\ req.Params.TaskID \in DOMAIN subscribers
              => Len(subscribers[req.Params.TaskID]) < MaxSubscribers
        /\ LET r == SubscribeToTaskUpdates(Service, req)
           IN /\ tasks' = r.s.tasks
              /\ subscribers' = r.s.subscribers
              /\ pushEndpoints' = r.s.pushEndpoints
              /\ call' = [op |-> "SubscribeToTaskUpdates",
                          taskID |-> req.Params.TaskID, req |-> req,
                          task |-> ZeroTask, err |-> r.err,
                          result |-> r.result]
    /\ UNCHANGED <<now, ticks, wire, origin, client>>

CallSetPushNotification ==
    /\ call = NoCall
    /\ \E req \in PushRequests :
        LET r == SetPushNotification(Service, req)
        IN /\ tasks' = r.s.tasks
           /\ subscribers' = r.s.subscribers
           /\ pushEndpoints' = r.s.pushEndpoints
           /\ call' = [op |-> "SetPushNotification",
                       taskID |-> req.Params.TaskID, req |-> req,
                       task |-> ZeroTask, err |-> r.err]
    /\ UNCHANGED <<now, ticks, wire, origin, client>>

CallGetTask ==
    /\ call = NoCall
    /\ \E taskID \in TaskIDs :
        LET r == GetTask(Service, taskID)
        IN call' = [op |-> "GetTask", taskID |-> taskID, req |-> taskID,
                    task |-> r.task, err |-> r.err]
    /\ UNCHANGED <<tasks, subscribers, pushEndpoints>>
    /\ UNCHANGED <<now, ticks, wire, origin, client>>

CallUpdateTaskStatus ==
    /\ call = NoCall
    /\ \E taskID \in TaskIDs, status \in Statuses :
        /\ ~Queued(taskID)
        /\ LET r == UpdateTaskStatus(Service, taskID, status)
           IN /\ tasks' = r.s.tasks
              /\ subscribers' = r.s.subscribers
              /\ pushEndpoints' = r.s.pushEndpoints
              /\ call' = [op |-> "UpdateTaskStatus", taskID |-> taskID,
                          req |-> status, task |-> ZeroTask, err |-> r.err]
    /\ UNCHANGED <<now, ticks, wire, origin, client>>

\* A JSON value of the request object, by its JSON type
Absent == [type |-> "absent", val |-> ""]
JSONStr(s) == [type |-> "string", val |-> s]
JSONNum == [type |-> "number", val |-> "1"]

\* The "params" member of a request: a task object, a {taskId} object, a
\* {taskId, endpoint} object, or a JSON string
TaskParams(task) == [shape |-> "task", task |-> task, TaskID |-> "", Endpoint |-> ""]
SubscribeParams(taskID) ==
    [shape |-> "subscribe", task |-> ZeroTask, TaskID |-> taskID, Endpoint |-> ""]
PushParams(taskID, endpoint) ==
    [shape |-> "push", task |-> ZeroTask, TaskID |-> taskID, Endpoint |-> endpoint]
StringParams == [shape |-> "string", task |-> ZeroTask, TaskID |-> "", Endpoint |-> ""]

\* json.Unmarshal(request, &typedRequest): a member of the wrong JSON type
\* is an error; members the struct does not name are ignored and members
\* the object lacks stay zero.
UnmarshalFails(request) == request.params.shape = "string"

\* The {"jsonrpc": "2.0", "error": {code, message}} answer
ErrorResponse(code, message) ==
    [jsonrpc |-> "2.0", error |-> {[code |-> code, message |-> message]},
     result |-> {}]
ResultResponse(result) == [jsonrpc |-> "2.0", error |-> {}, result |-> {result}]
NoResponse == [jsonrpc |-> "", error |-> {}, result |-> {}]

\* Service.ProcessJSONRPCRequest(request) ([]byte, error)
ProcessJSONRPCRequest_SendUnchecked(s, request) ==
    IF ~request.object
    THEN [s |-> s, resp |-> NoResponse, err |-> PlainError("invalid JSON")]
    ELSE IF request.jsonrpc # JSONStr("2.0")
    THEN [s |-> s, resp |-> ErrorResponse(-32600, "Invalid Request"), err |-> NoError]
    ELSE IF request.method.type # "string"
    THEN [s |-> s, resp |-> ErrorResponse(-32600, "Invalid Request"), err |-> NoError]
    ELSE IF request.method.val = "tasks/send"
    THEN IF UnmarshalFails(request)
         THEN [s |-> s, resp |-> ErrorResponse(-32602, "Invalid params"),
               err |-> NoError]
         ELSE LET r == SendTask(s, [JSONRPC |-> "2.0", ID |-> request.id,
                                    Method |-> "tasks/send",
                                    Params |-> request.params.task])
              IN IF r.err # NoError
                 THEN [s |-> r.s, resp |-> NoResponse, err |-> r.err]
                 ELSE [s |-> r.s, resp |-> ResultResponse(r.resp.Result),
                       err |-> NoError]
    ELSE [s |-> s,
          resp |-> ErrorResponse(-32004, "This operation is not supported"),
          err |-> NoError]

ProcessJSONRPCRequest(s, request) ==
    IF ~request.object
    THEN [s |-> s, resp |-> NoResponse, err |-> PlainError("invalid JSON")]
    ELSE IF request.jsonrpc # JSONStr("2.0")
    THEN [s |-> s, resp |-> ErrorResponse(-32600, "Invalid Request"), err |-> NoError]
    ELSE IF request.method.type # "string"
    THEN [s |-> s, resp |-> ErrorResponse(-32600, "Invalid Request"), err |-> NoError]
    ELSE IF request.method.val = "tasks/send"
    THEN IF UnmarshalFails(request)
         THEN [s |-> s, resp |-> ErrorResponse(-32602, "Invalid params"),
               err |-> NoError]
         ELSE IF request.params.task.Message.Text = ""
         THEN [s |-> s, resp |-> ErrorResponse(-32602, "Invalid params"),
               err |-> NoError]
         ELSE LET r == SendTask(s, [JSONRPC |-> "2.0", ID |-> request.id,
                                    Method |-> "tasks/send",
                                    Params |-> request.params.task])
              IN IF r.err # NoError
                 THEN [s |-> r.s, resp |-> NoResponse, err |-> r.err]
                 ELSE [s |-> r.s, resp |-> ResultResponse(r.resp.Result),
                       err |-> NoError]
    ELSE IF request.method.val = "tasks/sendSubscribe"
    THEN IF UnmarshalFails(request)
         THEN [s |-> s, resp |-> ErrorResponse(-32602, "Invalid params"),
               err |-> NoError]
         ELSE LET r == SubscribeToTaskUpdates(s,
                           [JSONRPC |-> "2.0", ID |-> request.id,
                            Method |-> "tasks/sendSubscribe",
                            Params |-> [TaskID |-> request.params.TaskID]])
              IN IF r.err # NoError
                 THEN [s |-> r.s, resp |-> NoResponse, err |-> r.err]
                 ELSE [s |-> r.s, resp |-> ResultResponse(r.result),
                       err |-> NoError]
    ELSE IF request.method.val = "tasks/pushNotification/set"
    THEN IF UnmarshalFails(request)
         THEN [s |-> s, resp |-> ErrorResponse(-32602, "Invalid params"),
               err |-> NoError]
         ELSE LET r == SetPushNotification(s,
                           [JSONRPC |-> "2.0", ID |-> request.id,
                            Method |-> "tasks/pushNotification/set",
                            Params |-> [TaskID |-> request.params.TaskID,
                                        Endpoint |-> request.params.Endpoint]])
              IN IF r.err # NoError
                 THEN [s |-> r.s, resp |-> NoResponse, err |-> r.err]
                 ELSE [s |-> r.s, resp |-> ResultResponse(r.result),
                       err |-> NoError]
    ELSE [s |-> s,
          resp |-> ErrorResponse(-32004, "This operation is not supported"),
          err |-> NoError]

\* Request bytes: text that is no JSON object, and objects over the members
\* the dispatcher looks at
JSONRPCRequests ==
    {[object |-> FALSE, jsonrpc |-> Absent, method |-> Absent, id |-> "1",
      params |-> StringParams]}
    \cup
    [object : {TRUE},
     jsonrpc : {Absent, JSONNum, JSONStr("1.0"), JSONStr("2.0")},
     method : {Absent, JSONNum, JSONStr("tasks/send"),
               JSONStr("tasks/sendSubscribe"),
               JSONStr("tasks/pushNotification/set"),
               JSONStr("tasks/selfDestruct")},
     id : {"1"},
     params : {TaskParams([ID |-> "task-123", SessionID |-> "session-abc",
                           Message |-> [Text |-> text],
                           Status |-> [State |-> "", Message |-> ""],
                           Metadata |-> {}]) :
                   text \in {"", "Please process this file"}}
              \cup {SubscribeParams("task-123"),
                    PushParams("task-123", "https://example.com/hook"),
                    StringParams}]

\* The method, if any, that the dispatcher hands the request to
Dispatched(request, r) ==
    IF r.err = NoError /\ r.resp.result # {} THEN request.method.val ELSE "none"

CallProcessJSONRPCRequest ==
    /\ call = NoCall
    /\ \E request \in JSONRPCRequests :
        /\ ~Queued(request.params.task.ID)
        /\ \A id \in {request.params.TaskID} \cap DOMAIN subscribers :
              Len(subscribers[id]) < MaxSubscribers
        /\ LET r == ProcessJSONRPCRequest(Service, request)
           IN /\ tasks' = r.s.tasks
              /\ subscribers' = r.s.subscribers
              /\ pushEndpoints' = r.s.pushEndpoints
              /\ call' = [op |-> "ProcessJSONRPCRequest",
                          taskID |-> IF request.params.shape = "task"
                                     THEN request.params.task.ID
                                     ELSE request.params.TaskID,
                          req |-> request, task |-> ZeroTask, err |-> r.err,
                          resp |-> r.resp,
                          dispatched |-> Dispatched(request, r)]
    /\ UNCHANGED <<now, ticks, wire, origin, client>>

\* The method has returned and released the mutex.
ServiceReturn ==
    /\ call.op \in {"SendTask", "SubscribeToTaskUpdates", "SetPushNotification",
                    "GetTask", "UpdateTaskStatus", "ProcessJSONRPCRequest"}
    /\ call' = NoCall
    /\ UNCHANGED <<tasks, subscribers, pushEndpoints>>
    /\ UNCHANGED <<now, ticks, wire, origin, client>>

TaskNext ==
    \/ CallSendTask
    \/ CallSubscribeToTaskUpdates
    \/ CallSetPushNotification
    \/ CallGetTask
    \/ CallUpdateTaskStatus
    \/ CallProcessJSONRPCRequest
    \/ ServiceReturn

TaskSpec == Init /\ [][TaskNext]_vars

---------------------------------------------------------------------------
(* Properties of the task service *)

\* The step is a call of the named method that returned without error,
\* made directly or through ProcessJSONRPCRequest.
Succeeded(op) ==
    /\ call = NoCall
    /\ call'.err = NoError
    /\ \/ call'.op = op
       \/ /\ call'.op = "ProcessJSONRPCRequest"
          /\ op = "SendTask"
          /\ call'.dispatched = "tasks/send"

\* The fields of a task that a status update leaves alone
Identity(task) ==
    [ID |-> task.ID, SessionID |-> task.SessionID, Message |-> task.Message,
     Metadata |-> task.Metadata]

\* C19: task status lifecycle.  After SendTask succeeds for task id T,
\* GetTask(T) returns a task in state "submitted"; after a successful
\* UpdateTaskStatus(T, s), GetTask(T) returns status s, and the task's ID,
\* SessionID, Message and Metadata are as before; no other call changes a
\* stored task, so GetTask(T) returns the status of the most recent update.
C19_StatusLifecycle ==
    [][ /\ Succeeded("SendTask") =>
              /\ GetTask(Service', call'.taskID).err = NoError
              /\ GetTask(Service', call'.taskID).task.Status.State = "submitted"
        /\ Succeeded("UpdateTaskStatus") =>
              /\ GetTask(Service', call'.taskID).err = NoError
              /\ GetTask(Service', call'.taskID).task.Status = call'.req
              /\ Identity(tasks'[call'.taskID]) = Identity(tasks[call'.taskID])
              /\ \A other \in DOMAIN tasks \ {call'.taskID} :
                    tasks'[other] = tasks[other]
        /\ ~(Succeeded("SendTask") \/ Succeeded("UpdateTaskStatus"))
              => tasks' = tasks
        /\ Succeeded("GetTask") => call'.task = tasks[call'.taskID]
      ]_vars

\* GetTask after two updates: the status is that of the second update and
\* the session id and metadata are those the task was sent with.
C19_Witness ==
    /\ call.op = "GetTask"
    /\ call.err = NoError
    /\ call.task.Status = [State |-> "completed", Message |-> "done"]
    /\ call.task.SessionID = "session-xyz"
    /\ call.task.Metadata # {}
    /\ "task-123" \in DOMAIN subscribers
    /\ \E i \in 1..Len(subscribers["task-123"]) :
          subscribers["task-123"][i] =
              << StatusUpdate([State |-> "working", Message |-> ""]),
                 StatusUpdate([State |-> "completed", Message |-> "done"]) >>

\* C20: unknown task handling.  GetTask and UpdateTaskStatus called with an
\* id that is not stored return a TaskNotFoundError carrying that id, which
\* ErrorToRPCError maps to code -32001 with message "Task not found"; the
\* tasks map, the subscriber lists and the push endpoints are unchanged, so
\* no event is delivered to any subscriber channel.
C20_UnknownTask ==
    [][ ( /\ call = NoCall
          /\ call'.op \in {"GetTask", "UpdateTaskStatus"}
          /\ call'.taskID \notin DOMAIN tasks )
        => /\ call'.err = TaskNotFoundError(call'.taskID)
           /\ ErrorToRPCError(call'.err) =
                 [Code |-> -32001, Message |-> "Task not found"]
           /\ UNCHANGED <<tasks, subscribers, pushEndpoints>>
      ]_vars

\* A status update for an id that has a subscriber and a push endpoint but
\* no task: the subscriber's channel is still empty.
C20_Witness ==
    /\ call.op = "UpdateTaskStatus"
    /\ call.taskID = "unknown-task"
    /\ call.err = TaskNotFoundError("unknown-task")
    /\ "unknown-task" \in DOMAIN pushEndpoints
    /\ "unknown-task" \in DOMAIN subscribers
    /\ subscribers["unknown-task"] = << <<>> >>

\* The error member of the answer has this code (and message, if given).
AnswersWith(resp, code) == \E e \in resp.error : e.code = code
AnswersWithMessage(resp, code, message) ==
    resp.error = {[code |-> code, message |-> message]}

\* C21: JSON-RPC dispatch errors.  ProcessJSONRPCRequest answers a request
\* object whose jsonrpc member is missing or not "2.0", or whose method is
\* not a string, with code -32600; a tasks/send request whose message text
\* is empty with code -32602 and message "Invalid params"; any method other
\* than tasks/send, tasks/sendSubscribe and tasks/pushNotification/set with
\* code -32004 and message "This operation is not supported".  In all these
\* cases the Go error is nil and tasks, subscribers and push endpoints are
\* unchanged.
C21_DispatchErrors ==
    [][ ( /\ call = NoCall
          /\ call'.op = "ProcessJSONRPCRequest"
          /\ call'.req.object )
        => LET request == call'.req
               badEnvelope == \/ request.jsonrpc # JSONStr("2.0")
                              \/ request.method.type # "string"
               emptyText == /\ ~badEnvelope
                            /\ request.method.val = "tasks/send"
                            /\ request.params.shape = "task"
                            /\ request.params.task.Message.Text = ""
               unsupported == /\ ~badEnvelope
                              /\ request.method.val \notin
                                    {"tasks/send", "tasks/sendSubscribe",
                                     "tasks/pushNotification/set"}
           IN /\ badEnvelope => AnswersWith(call'.resp, -32600)
              /\ emptyText =>
                    AnswersWithMessage(call'.resp, -32602, "Invalid params")
              /\ unsupported =>
                    AnswersWithMessage(call'.resp, -32004,
                                       "This operation is not supported")
              /\ (badEnvelope \/ emptyText \/ unsupported) =>
                    /\ call'.err = NoError
                    /\ call'.resp.result = {}
                    /\ UNCHANGED <<tasks, subscribers, pushEndpoints>>
      ]_vars

\* A tasks/send request with an empty message text for an id under which a
\* task with a subscriber is stored: answered -32602, the task still there.
C21_Witness ==
    /\ call.op = "ProcessJSONRPCRequest"
    /\ call.req.jsonrpc = JSONStr("2.0")
    /\ call.req.method = JSONStr("tasks/send")
    /\ call.req.params.shape = "task"
    /\ call.req.params.task.Message.Text = ""
    /\ AnswersWithMessage(call.resp, -32602, "Invalid params")
    /\ call.err = NoError
    /\ "task-123" \in DOMAIN tasks
    /\ tasks["task-123"].Status.State = "working"
    /\ "task-123" \in DOMAIN subscribers

\* C26: SendTask with an empty message text returns an error and has no
\* effect: no task is stored or overwritten under the given id, no
\* subscriber receives an event, and GetTask for that id returns afterwards
\* what it returned before.
C26_RejectedSendHasNoEffect ==
    [][ ( /\ call = NoCall
          /\ call'.op = "SendTask"
          /\ call'.req.Params.Message.Text = "" )
        => /\ call'.err # NoError
           /\ UNCHANGED <<tasks, subscribers, pushEndpoints>>
           /\ GetTask(Service', call'.taskID) = GetTask(Service, call'.taskID)
      ]_vars

\* A rejected SendTask for an id under which a task in state "working" with
\* a subscriber is stored
C26_Witness ==
    /\ call.op = "SendTask"
    /\ call.req.Params.Message.Text = ""
    /\ call.err = PlainError("message text is required")
    /\ "task-123" \in DOMAIN tasks
    /\ tasks["task-123"].Status.State = "working"
    /\ "task-123" \in DOMAIN subscribers
    /\ subscribers["task-123"] # <<>>

\* The channels registered for a task id, in order
ChannelsOf(subs, taskID) == IF taskID \in DOMAIN subs THEN subs[taskID] ELSE <<>>

\* C27: subscription delivery.  SubscribeToTaskUpdates with jsonrpc "2.0"
\* always succeeds with result "subscribed", whether or not the task
\* exists; if it exists, the one event on the new channel is the task's
\* current status; if it does not, the channel is empty and stays empty
\* until a SendTask with that id succeeds, which delivers a "submitted"
\* event.  With any other jsonrpc value the call fails and no subscriber is
\* registered.
C27_SubscriptionDelivery ==
    [][ /\ ( /\ call = NoCall
             /\ call'.op = "SubscribeToTaskUpdates"
             /\ call'.req.JSONRPC = "2.0" )
           => LET taskID == call'.taskID
                  old == ChannelsOf(subscribers, taskID)
              IN /\ call'.err = NoError
                 /\ call'.result = "subscribed"
                 /\ subscribers'[taskID] =
                       Append(old, IF taskID \in DOMAIN tasks
                                   THEN <<StatusUpdate(tasks[taskID].Status)>>
                                   ELSE <<>>)
        /\ ( /\ call = NoCall
             /\ call'.op = "SubscribeToTaskUpdates"
             /\ call'.req.JSONRPC # "2.0" )
           => /\ call'.err # NoError
              /\ UNCHANGED <<tasks, subscribers, pushEndpoints>>
        /\ \A taskID \in DOMAIN subscribers' \ DOMAIN tasks' :
              \A i \in 1..Len(subscribers'[taskID]) :
                  subscribers'[taskID][i] = <<>>
        /\ \A taskID \in DOMAIN subscribers \ DOMAIN tasks :
              Succeeded("SendTask") /\ call'.taskID = taskID
                 => \A i \in 1..Len(subscribers[taskID]) :
                       subscribers'[taskID][i] = <<StatusUpdate(Submitted)>>
      ]_vars

\* A subscriber registered before the task existed has just received the
\* "submitted" event of the first SendTask.
C27_Witness ==
    /\ call.op = "SendTask"
    /\ call.err = NoError
    /\ call.taskID \in DOMAIN subscribers
    /\ subscribers[call.taskID] = << <<StatusUpdate(Submitted)>> >>

(***************************************************************************)
(* The task service under concurrent callers.  Each goroutine runs one     *)
(* Service method at a time; s.mu is the only synchronisation, and the     *)
(* steps of a method are the acquisition of the mutex, the body up to the  *)
(* stores into the maps, the notification of the subscribers, and the      *)
(* deferred unlock.  In this specification `call` maps each goroutine to   *)
(* the call it is in.  No step receives from a subscriber channel: the     *)
(* channels are not reachable from outside the package.                    *)
(***************************************************************************)

Goroutines == {"g1", "g2"}

IdleGoroutine ==
    [pc |-> "idle", op |-> "", taskID |-> "", text |-> "",
     status |-> [State |-> "", Message |-> ""]]

\* The calls of the goroutines.  SubscribeToTaskUpdates and
\* SetPushNotification with a jsonrpc other than "2.0" return before they
\* touch the mutex and are left to the sequential specification.
ConcurrentCalls ==
    [pc : {"waiting"}, op : {"SendTask"}, taskID : SentTaskIDs,
     text : {"", "Please process this file"}, status : {Submitted}]
    \cup [pc : {"waiting"}, op : {"UpdateTaskStatus"}, taskID : TaskIDs,
          text : {""}, status : {[State |-> "working", Message |-> ""]}]
    \cup [pc : {"waiting"},
          op : {"SubscribeToTaskUpdates", "SetPushNotification", "GetTask"},
          taskID : SentTaskIDs, text : {""}, status : {IdleGoroutine.status}]

\* sync.RWMutex: the goroutines between Lock and Unlock, and between RLock
\* and RUnlock
HoldsLock(c) == c.pc \in {"locked", "notify", "returning"}
Writers(calls) == {g \in Goroutines : HoldsLock(calls[g]) /\ calls[g].op # "GetTask"}
Readers(calls) == {g \in Goroutines : HoldsLock(calls[g]) /\ calls[g].op = "GetTask"}

\* s.mu.Lock() returns when nobody holds the mutex, s.mu.RLock() when no
\* writer holds it.
LockReturns_Unguarded(calls, g) == TRUE

LockReturns(calls, g) ==
    IF calls[g].op = "GetTask"
    THEN Writers(calls) = {}
    ELSE Writers(calls) = {} /\ Readers(calls) = {}

\* Whether notifySubscribers(taskID, event) blocks: a send in a select with
\* a default case never does, whatever the channel holds.
notifyBlocks_PlainSend(subs, taskID) ==
    \E i \in 1..Len(ChannelsOf(subs, taskID)) :
        Len(subs[taskID][i]) >= ChannelCapacity

notifyBlocks(subs, taskID) ==
    \E i \in 1..Len(ChannelsOf(subs, taskID)) : FALSE

\* UpdateTaskStatus called n times in a row
RECURSIVE Updated(_, _, _, _)
Updated(s, taskID, status, n) ==
    IF n = 0 THEN s
    ELSE Updated(UpdateTaskStatus(s, taskID, status).s, taskID, status, n - 1)

\* A service with a slow consumer: a task was sent, a subscriber registered
\* and received the snapshot, and the status was updated until the channel
\* had room for one more event.
SlowConsumerService ==
    LET send == CHOOSE req \in SendTaskRequests :
                    /\ req.Params.Message.Text # ""
                    /\ req.Params.SessionID = "session-abc"
                    /\ req.Params.Status.State = ""
                    /\ req.Params.Metadata = {}
        subscribe == CHOOSE req \in SubscribeRequests :
                        /\ req.JSONRPC = "2.0"
                        /\ req.Params.TaskID = send.Params.ID
        sent == SendTask(NewService, send).s
        subscribed == SubscribeToTaskUpdates(sent, subscribe).s
    IN Updated(subscribed, send.Params.ID,
               [State |-> "working", Message |-> ""], ChannelCapacity - 2)

\* The exploration starts from a new service and from one with a slow
\* consumer, and does not grow a channel from MaxQueued events up to the
\* slow consumer's backlog.
Backlog(taskID) ==
    \E i \in 1..Len(ChannelsOf(subscribers, taskID)) :
        /\ Len(subscribers[taskID][i]) >= MaxQueued
        /\ Len(subscribers[taskID][i]) < ChannelCapacity - 1

ConcInit ==
    /\ now = 0
    /\ ticks = 0
    /\ wire = EmptyToken
    /\ origin = NoOrigin
    /\ client = NewAgentClient
    /\ call = [g \in Goroutines |-> IdleGoroutine]
    /\ \/ /\ tasks = NewService.tasks
          /\ subscribers = NewService.subscribers
          /\ pushEndpoints = NewService.pushEndpoints
       \/ /\ tasks = SlowConsumerService.tasks
          /\ subscribers = SlowConsumerService.subscribers
          /\ pushEndpoints = SlowConsumerService.pushEndpoints

\* A goroutine calls a method and arrives at s.mu.Lock() or s.mu.RLock().
GoCall(g) ==
    /\ call[g].pc = "idle"
    /\ \E c \in ConcurrentCalls :
        /\ c.op \in {"SendTask", "UpdateTaskStatus"} => ~Backlog(c.taskID)
        /\ c.op = "SubscribeToTaskUpdates"
              => Len(ChannelsOf(subscribers, c.taskID)) < MaxSubscribers
        /\ call' = [call EXCEPT ![g] = c]
    /\ UNCHANGED <<tasks, subscribers, pushEndpoints>>
    /\ UNCHANGED <<now, ticks, wire, origin, client>>

\* s.mu.Lock() / s.mu.RLock() returns.
GoLock(g) ==
    /\ call[g].pc = "waiting"
    /\ LockReturns(call, g)
    /\ call' = [call EXCEPT ![g].pc = "locked"]
    /\ UNCHANGED <<tasks, subscribers, pushEndpoints>>
    /\ UNCHANGED <<now, ticks, wire, origin, client>>

\* The body of the method under the lock, up to notifySubscribers or to
\* the return statement.
GoBody(g) ==
    /\ call[g].pc = "locked"
    /\ LET c == call[g]
       IN \/ /\ c.op = "SendTask"
             /\ IF c.text = ""
                THEN /\ call' = [call EXCEPT ![g].pc = "returning"]
                     /\ UNCHANGED tasks
                ELSE /\ tasks' = MapSet(tasks, c.taskID,
                                    [ID |-> c.taskID, SessionID |-> "session-abc",
                                     Message |-> [Text |-> c.text],
                                     Status |-> Submitted, Metadata |-> {}])
                     /\ call' = [call EXCEPT ![g].pc = "notify"]
             /\ UNCHANGED <<subscribers, pushEndpoints>>
          \/ /\ c.op = "UpdateTaskStatus"
             /\ IF c.taskID \notin DOMAIN tasks
                THEN /\ call' = [call EXCEPT ![g].pc = "returning"]
                     /\ UNCHANGED tasks
                ELSE /\ tasks' = [tasks EXCEPT ![c.taskID].Status = c.status]
                     /\ call' = [call EXCEPT ![g].pc = "notify"]
             /\ UNCHANGED <<subscribers, pushEndpoints>>
          \/ /\ c.op = "SubscribeToTaskUpdates"
             /\ subscribers' =
                   MapSet(subscribers, c.taskID,
                       Append(ChannelsOf(subscribers, c.taskID),
                              IF c.taskID \in DOMAIN tasks
                              THEN <<StatusUpdate(tasks[c.taskID].Status)>>
                              ELSE <<>>))
             /\ call' = [call EXCEPT ![g].pc = "returning"]
             /\ UNCHANGED <<tasks, pushEndpoints>>
          \/ /\ c.op = "SetPushNotification"
             /\ pushEndpoints' =
                   MapSet(pushEndpoints, c.taskID, "https://example.com/hook")
             /\ call' = [call EXCEPT ![g].pc = "returning"]
             /\ UNCHANGED <<tasks, subscribers>>
          \/ /\ c.op = "GetTask"
             /\ call' = [call EXCEPT ![g].pc = "returning"]
             /\ UNCHANGED <<tasks, subscribers, pushEndpoints>>
    /\ UNCHANGED <<now, ticks, wire, origin, client>>

\* notifySubscribers(taskID, event) with the status just stored
GoNotify(g) ==
    /\ call[g].pc = "notify"
    /\ ~notifyBlocks(subscribers, call[g].taskID)
    /\ subscribers' = notifySubscribers(subscribers, call[g].taskID,
                                        StatusUpdate(call[g].status))
    /\ call' = [call EXCEPT ![g].pc = "returning"]
    /\ UNCHANGED <<tasks, pushEndpoints>>
    /\ UNCHANGED <<now, ticks, wire, origin, client>>

\* The deferred s.mu.Unlock() / s.mu.RUnlock(), and the return
GoUnlock(g) ==
    /\ call[g].pc = "returning"
    /\ call' = [call EXCEPT ![g] = IdleGoroutine]
    /\ UNCHANGED <<tasks, subscribers, pushEndpoints>>
    /\ UNCHANGED <<now, ticks, wire, origin, client>>

ConcNext ==
    \E g \in Goroutines :
        \/ GoCall(g)
        \/ GoLock(g)
        \/ GoBody(g)
        \/ GoNotify(g)
        \/ GoUnlock(g)

ConcSpec == ConcInit /\ [][ConcNext]_vars

\* A goroutine that is in a call keeps running, and a goroutine waiting in
\* Lock or RLock gets the mutex if it is free again and again: sync.Mutex
\* hands the lock to a waiter that has waited for more than a millisecond,
\* and a pending Lock of sync.RWMutex excludes new readers.  Nothing obliges
\* a goroutine to make a call.
Fairness ==
    \A g \in Goroutines :
        /\ WF_vars(GoBody(g) \/ GoNotify(g) \/ GoUnlock(g))
        /\ SF_vars(GoLock(g))

FairConcSpec == ConcSpec /\ Fairness

\* C28: the task service is deadlock-free with slow consumers.  Under any
\* interleaving of concurrent SendTask, UpdateTaskStatus,
\* SubscribeToTaskUpdates, SetPushNotification and GetTask calls, with no
\* subscriber ever reading its channel, every call eventually returns and
\* releases the mutex, and no call is ever blocked in a channel send while
\* it holds the lock: a full channel is skipped.
C28_DeadlockFree ==
    /\ \A g \in Goroutines : (call[g].pc # "idle") ~> (call[g].pc = "idle")
    /\ [](\A g \in Goroutines :
              call[g].pc = "notify" => ENABLED GoNotify(g))

\* An UpdateTaskStatus has notified the subscribers of its task while a
\* channel was full, so that its event is not on that channel, and the
\* other goroutine waits for the mutex.
C28_Witness ==
    \E g \in Goroutines :
        /\ call[g].pc = "returning"
        /\ call[g].op = "UpdateTaskStatus"
        /\ call[g].taskID \in DOMAIN tasks
        /\ tasks[call[g].taskID].Status = call[g].status
        /\ \E i \in 1..Len(ChannelsOf(subscribers, call[g].taskID)) :
              LET ch == subscribers[call[g].taskID][i]
              IN /\ Len(ch) = ChannelCapacity
                 /\ ch[Len(ch)].Status # call[g].status
        /\ \E h \in Goroutines \ {g} : call[h].pc = "waiting"

\* The goroutines that run notifySubscribers for the task in this step
Notifying(taskID) ==
    {g \in Goroutines : /\ call[g].pc = "notify"
                        /\ call'[g].pc = "returning"
                        /\ call[g].taskID = taskID}

\* The goroutines that store a status of the task in this step
Storing(taskID) ==
    {g \in Goroutines : /\ call[g].pc = "locked"
                        /\ call'[g].pc = "notify"
                        /\ call[g].taskID = taskID}

\* C29: per-subscriber event order and bounded loss.  A channel never holds
\* more than 10 events.  A channel starts with the snapshot taken at
\* subscription (or empty, if the task did not exist) and changes only by
\* the notification of a status change, which appends the status then
\* stored for the task, unless the channel is full at that moment, in which
\* case the event is dropped; events already on it are never reordered or
\* removed.  Each status change is notified before the next one is applied,
\* so that concurrent updates reach every channel in the order in which
\* they were applied to the stored task.
C29_OrderAndBoundedLoss ==
    [][ /\ \A taskID \in DOMAIN subscribers' :
              \A i \in 1..Len(subscribers'[taskID]) :
                  LET new == subscribers'[taskID][i]
                  IN /\ Len(new) <= ChannelCapacity
                     /\ IF i <= Len(ChannelsOf(subscribers, taskID))
                        THEN LET old == subscribers[taskID][i]
                             IN IF Notifying(taskID) # {}
                                   /\ Len(old) < ChannelCapacity
                                THEN new = Append(old,
                                               StatusUpdate(tasks[taskID].Status))
                                ELSE new = old
                        ELSE /\ i = Len(ChannelsOf(subscribers, taskID)) + 1
                             /\ new = IF taskID \in DOMAIN tasks
                                      THEN <<StatusUpdate(tasks[taskID].Status)>>
                                      ELSE <<>>
        /\ \A taskID \in DOMAIN subscribers :
              /\ taskID \in DOMAIN subscribers'
              /\ Len(subscribers'[taskID]) >= Len(subscribers[taskID])
        /\ tasks' # tasks
              => \E taskID \in DOMAIN tasks' :
                    /\ \A other \in DOMAIN tasks \ {taskID} :
                          tasks'[other] = tasks[other]
                    /\ \E g \in Storing(taskID) :
                          /\ tasks'[taskID].Status = call[g].status
                          /\ \A h \in Goroutines \ {g} :
                                call[h].pc \notin {"locked", "notify"}
      ]_vars

\* A SendTask has stored "submitted" over the status of an UpdateTaskStatus
\* while another UpdateTaskStatus waits for the mutex, and the channel
\* holds the two events in that order.
C29_Witness ==
    \E g \in Goroutines :
        /\ call[g].pc = "returning"
        /\ call[g].op = "SendTask"
        /\ call[g].text # ""
        /\ \E i \in 1..Len(ChannelsOf(subscribers, call[g].taskID)) :
              LET ch == subscribers[call[g].taskID][i]
              IN /\ Len(ch) >= 2
                 /\ Len(ch) < ChannelCapacity
                 /\ ch[Len(ch)] = StatusUpdate(Submitted)
                 /\ ch[Len(ch) - 1].Status.State = "working"
        /\ \E h \in Goroutines \ {g} :
              /\ call[h].pc = "waiting"
              /\ call[h].op = "UpdateTaskStatus"
              /\ call[h].taskID = call[g].taskID

\* The status a client method expects
ExpectedStatus(op) == IF op = "CreateSession" THEN StatusCreated ELSE StatusOK

\* The result a client method returns next to an error
EmptyResult(op) ==
    IF op \in {"RegisterOrg", "RegisterAgent"} THEN "" ELSE {}

ClientOps ==
    {"RegisterOrg", "RegisterAgent", "ListOffers", "CreateSession",
     "SendMessage", "JoinSession"}

\* C22: validate before send.  RegisterOrg with a card that OrgCard.Validate
\* rejects, RegisterAgent with a card that AgentCard.Validate rejects, and
\* SendMessage with a message that A2AMessage.Validate rejects return an
\* error without sending an HTTP request; and when the response carries a
\* status other than the expected one (200, 201 for CreateSession) the
\* method returns an error and an empty result.
C22_ValidateBeforeSend ==
    /\ ( call.op = "RegisterOrg" /\ OrgCardValidate(call.input) # NoError )
          => call.requests = {} /\ call.err # NoError
    /\ ( call.op = "RegisterAgent" /\ AgentCardValidate(call.input) # NoError )
          => call.requests = {} /\ call.err # NoError
    /\ ( call.op = "SendMessage" /\ A2AMessageValidate(call.input) # NoError )
          => call.requests = {} /\ call.err # NoError
    /\ ( /\ call.op \in ClientOps
         /\ call.requests # {}
         /\ call.resp.sent
         /\ call.resp.status # ExpectedStatus(call.op) )
          => call.err # NoError /\ call.result = EmptyResult(call.op)

\* SendMessage has rejected a message without a session id, and nothing was
\* sent.
C22_Witness ==
    /\ call.op = "SendMessage"
    /\ call.input.SessionID = ""
    /\ call.err = {"invalid message", "session_id is required"}
    /\ call.requests = {}

---------------------------------------------------------------------------
(* src/agent.go: AgentToken.Validate on its own *)

(* Inputs *)

AgentTokensToValidate ==
    [AgentID : {EmptyString, StrAgent}, OrgID : {EmptyString, StrX},
     Verified : BOOLEAN, Capabilities : {<<>>, <<StrText>>},
     Exp : {0, 1, DefaultTokenExpiry},
     Iss : {"", TokenIssuer}, Aud : {"", AgentTokenAudience}]

(* Actions *)

CallAgentTokenValidate ==
    /\ call = NoCall
    /\ \E at \in AgentTokensToValidate :
        call' = [op |-> "AgentToken.Validate", at |-> at,
                 err |-> AgentTokenValidate(at, now)]
    /\ UNCHANGED <<now, ticks, wire, origin>>
    /\ UNCHANGED <<client, tasks, subscribers, pushEndpoints>>

AgentTokenValidateReturn ==
    /\ call.op = "AgentToken.Validate"
    /\ call' = NoCall
    /\ UNCHANGED <<now, ticks, wire, origin>>
    /\ UNCHANGED <<client, tasks, subscribers, pushEndpoints>>

AgentTokenNext ==
    \/ Tick
    \/ CallAgentTokenValidate
    \/ AgentTokenValidateReturn

AgentTokenSpec == Init /\ [][AgentTokenNext]_vars

\* C23: AgentToken.Validate returns an error if and only if AgentID is
\* empty, OrgID is empty, Exp is 0, Iss is empty, Aud is empty, or the
\* current Unix time is strictly greater than Exp; a token whose Exp is the
\* current second is accepted; Verified and Capabilities do not affect the
\* result.
C23_AgentTokenValidate ==
    call.op = "AgentToken.Validate" =>
        /\ call.err # NoError
              <=> \/ call.at.AgentID = EmptyString
                  \/ call.at.OrgID = EmptyString
                  \/ call.at.Exp = 0
                  \/ call.at.Iss = ""
                  \/ call.at.Aud = ""
                  \/ Unix(now) > call.at.Exp
        /\ \A other \in AgentTokensToValidate :
              ( /\ other.AgentID = call.at.AgentID
                /\ other.OrgID = call.at.OrgID
                /\ other.Exp = call.at.Exp
                /\ other.Iss = call.at.Iss
                /\ other.Aud = call.at.Aud )
                 => AgentTokenValidate(other, now) = call.err

\* A token is accepted in the second in which it expires.
C23_Witness ==
    /\ call.op = "AgentToken.Validate"
    /\ call.err = NoError
    /\ call.at.Exp = Unix(now)
    /\ call.at.Verified

---------------------------------------------------------------------------
(* Token status classification *)

\* The classes of a token at one verification with one key
ValidStructure(token) == token.parts = 3

SignatureValid(token, key) ==
    /\ ValidStructure(token)
    /\ IsECDSA(token.alg)
    /\ MethodVerify(token.alg, SigningString(token.alg, token.payload),
                    DecodeSegment(token.sig), key)

Expired(token, t) ==
    /\ ValidStructure(token)
    /\ \E e \in token.payload.exp : ~Before(t, e)

NotYetValid(token, t) ==
    /\ ValidStructure(token)
    /\ \E i \in token.payload.iat : Before(t, i)

Active(token, key, t) ==
    /\ SignatureValid(token, key)
    /\ token.payload.exp # {}
    /\ ~Expired(token, t)
    /\ ~NotYetValid(token, t)

\* C24: token status classification order.  ParseTokenWithPublicKey
\* classifies a token as malformed or of valid structure, then as
\* signature-invalid or signature-valid, then as expired, not-yet-valid or
\* active, and succeeds only for an active token: a token of valid
\* structure whose signature does not verify is reported as such (as
\* unverifiable when its method is not ECDSA) and never as expired, even
\* when it is expired too, and a correctly signed token whose iat lies in
\* the future is rejected as used before issued.
C24_ClassificationOrder ==
    call.op = "ParseTokenWithPublicKey" =>
        /\ call.err = NoError <=> Active(wire, call.key, now)
        /\ ~ValidStructure(wire) => call.err = {"ErrTokenMalformed"}
        /\ ( ValidStructure(wire) /\ ~SignatureValid(wire, call.key) )
              => /\ call.err = IF IsECDSA(wire.alg)
                               THEN {"ErrTokenSignatureInvalid"}
                               ELSE {"ErrTokenUnverifiable"}
        /\ ( SignatureValid(wire, call.key) /\ Expired(wire, now) )
              => "ErrTokenExpired" \in call.err
        /\ ( SignatureValid(wire, call.key) /\ NotYetValid(wire, now) )
              => "ErrTokenUsedBeforeIssued" \in call.err

\* An expired token verified against a key that did not sign it is reported
\* as signature-invalid.
C24_Witness ==
    /\ call.op = "ParseTokenWithPublicKey"
    /\ ValidStructure(wire)
    /\ IsECDSA(wire.alg)
    /\ ~SignatureValid(wire, call.key)
    /\ Expired(wire, now)
    /\ call.err = {"ErrTokenSignatureInvalid"}

---------------------------------------------------------------------------
(* The entry points that are given no key *)

\* C25: the keyless entry points parse and validate issued tokens.  For an
\* unexpired token returned by IssueOrgToken, ParseOrgToken returns without
\* error; for an unexpired token returned by IssueAgentToken,
\* ParseAgentTokenClaims and ParseAgentToken return without error.
C25_KeylessParseIssued ==
    /\ ( /\ call.op = "ParseOrgToken"
         /\ origin.op = "IssueOrgToken"
         /\ ~Expired(wire, now) )
          => call.err = NoError
    /\ ( /\ call.op \in {"ParseAgentTokenClaims", "ParseAgentToken"}
         /\ origin.op = "IssueAgentToken"
         /\ ~Expired(wire, now) )
          => call.err = NoError

===========================================================================
